---- MODULE Spec2Model ----
(***************************************************************************)
(* The tree-walking evaluator of steel (src/steel/src/evaluator.rs) as a   *)
(* state machine.  The native call stack of `evaluate` is the variable     *)
(* `stack`: one record per live activation of `evaluate`, the helper the   *)
(* activation is in (eval_if, eval_and, ...) being its `pc`.  Environment  *)
(* frames (Rc<RefCell<Env>>) live in `heap` and are named by their index.  *)
(***************************************************************************)
EXTENDS Integers, Sequences, FiniteSets, TLC

VARIABLES
    scenario,    \* the scenario being run: its id, parameters and inputs
    script,      \* the inputs still to be given to parse_and_eval, already parsed
    parsed,      \* parse_and_eval: the Vec<Expr> of the call in progress
    k,           \* parse_and_eval: index of the form being evaluated
    results,     \* parse_and_eval: the values collected so far
    status,      \* "idle" | "parsing" | "running" | "dropped"
    outcomes,    \* what each finished parse_and_eval call returned
    stack,       \* live activations of `evaluate`, innermost last
    ret,         \* the Result an activation has just returned to its caller
    heap,        \* the Env frames; heap[1] is global_env
    log,         \* history: every (expr, env) the loop of `evaluate` dispatched on
    setReturns,  \* what Env::set returns on success: fixed per run
    session,     \* 1: the first Evaluator; 2: a second one, given the same inputs
                 \* with (eval (quote e)) for e; 3: a second one, given the same
                 \* inputs with the let and define shorthands written out
    prev,        \* history: the outcomes and the heap the first Evaluator ended with
    tokenizer,   \* Parser: the tokens the lexer has still to give
    intern,      \* Evaluator::intern_cache: identifier text -> address of its atom
    rc,          \* the Rc<Expr> made by the parser: rc[a] is the node at address a,
                 \* the children of a ListVal node being addresses
    pstack,      \* live activations of Parser::next and read_from_tokens, innermost last
    pret,        \* the Option<Result<Expr>> a parser activation has just returned
    collected,   \* the expressions the Parser has yielded to collect()
    stream,      \* LazyStreamIter::stream, the current stream of the iterator
    items        \* history: what the calls of LazyStreamIter::next have returned

vars == <<scenario, script, parsed, k, results, status, outcomes, stack, ret, heap, log,
          setReturns, session, prev, tokenizer, intern, rc, pstack, pret, collected,
          stream, items>>

-----------------------------------------------------------------------------
(* Bounds of the model *)

\* iterations of the counting loops
MaxN == 3
\* evaluate-loop dispatches allowed in one session
MaxSteps == 70
\* length of the token sequences given to the parser
MaxTokens == 4
\* calls of LazyStreamIter::next on one iterator
MaxCalls == 5
\* operands of the and / or forms
MaxOperands == 3

-----------------------------------------------------------------------------
(* Tokens and expressions: parser/mod.rs Expr, parser/tokens.rs Token *)

Identifier(s) == [k |-> "Identifier", s |-> s]
NumberLiteral(n) == [k |-> "NumberLiteral", n |-> n]
StringLiteral(s) == [k |-> "StringLiteral", s |-> s]
BooleanLiteral(b) == [k |-> "BooleanLiteral", b |-> b]
QuoteTick == [k |-> "QuoteTick"]
OpenParen == [k |-> "OpenParen"]
CloseParen == [k |-> "CloseParen"]
\* an item of the lexer that is a TokenError
BadToken == [k |-> "TokenError"]

Atom(t) == [e |-> "Atom", t |-> t]
ListVal(l) == [e |-> "ListVal", l |-> l]

Id(s) == Atom(Identifier(s))
Num(n) == Atom(NumberLiteral(n))
Str(s) == Atom(StringLiteral(s))
Bool(b) == Atom(BooleanLiteral(b))

IsAtom(x) == x.e = "Atom"
IsList(x) == x.e = "ListVal"
IsIdentifier(x) == IsAtom(x) /\ x.t.k = "Identifier"
IsNamed(x, s) == IsIdentifier(x) /\ x.t.s = s

-----------------------------------------------------------------------------
(* Values and results: rvals.rs SteelVal, rerrs.rs SteelErr *)

BoolV(b) == [t |-> "BoolV", b |-> b]
NumV(n) == [t |-> "NumV", n |-> n]
StringV(s) == [t |-> "StringV", s |-> s]
Void == [t |-> "Void"]
FuncV(f) == [t |-> "FuncV", f |-> f]
SymbolV(s) == [t |-> "SymbolV", s |-> s]
ListV(l) == [t |-> "ListV", l |-> l]
LambdaV(params, body, env) ==
    [t |-> "LambdaV", params_exp |-> params, body_exp |-> body, parent_env |-> env]

None == [r |-> "None"]
Ok(v) == [r |-> "Ok", v |-> v]
Err(e) == [r |-> "Err", e |-> e]
IsOk(x) == x.r = "Ok"
IsErr(x) == x.r = "Err"

\* the first Err of a sequence of results, or Ok of the values:
\* .collect::<Result<Vec<_>>>()
Collect(rs) ==
    IF \E j \in 1..Len(rs) : IsErr(rs[j])
    THEN rs[CHOOSE j \in 1..Len(rs) : IsErr(rs[j]) /\ \A i \in 1..(j-1) : IsOk(rs[i])]
    ELSE Ok([j \in 1..Len(rs) |-> rs[j].v])

\* SteelVal::try_from(Rc<Expr>): the quoted datum of an expression
RECURSIVE ValFromExpr(_)
ValFromExpr(x) ==
    IF IsList(x)
    THEN LET rs == [j \in 1..Len(x.l) |-> ValFromExpr(x.l[j])]
             c == Collect(rs)
         IN  IF IsErr(c) THEN c ELSE Ok(ListV(c.v))
    ELSE CASE x.t.k = "BooleanLiteral" -> Ok(BoolV(x.t.b))
           [] x.t.k = "NumberLiteral" -> Ok(NumV(x.t.n))
           [] x.t.k = "StringLiteral" -> Ok(StringV(x.t.s))
           [] x.t.k = "Identifier" -> Ok(SymbolV(x.t.s))
           [] OTHER -> Err("UnexpectedToken")

\* <Rc<Expr>>::try_from(SteelVal): the expression a value stands for
RECURSIVE ExprFromVal(_)
ExprFromVal(v) ==
    CASE v.t = "BoolV" -> Ok(Bool(v.b))
      [] v.t = "NumV" -> Ok(Num(v.n))
      [] v.t = "StringV" -> Ok(Str(v.s))
      [] v.t = "SymbolV" -> Ok(Id(v.s))
      [] v.t = "ListV" ->
            LET rs == [j \in 1..Len(v.l) |-> ExprFromVal(v.l[j])]
                c == Collect(rs)
            IN  IF IsErr(c) THEN c ELSE Ok(ListVal(c.v))
      [] OTHER -> Err("ConversionError")

-----------------------------------------------------------------------------
(* Environments: env.rs Env, a frame of bindings and an optional parent *)

EnvFrame(parent, bindings) == [parent |-> parent, bindings |-> bindings]
NoParent == 0
Binds(h, env, name) == name \in DOMAIN h[env].bindings

\* the frames from env to the root, nearest first
RECURSIVE Chain(_, _)
Chain(h, env) == IF env = NoParent THEN <<>> ELSE <<env>> \o Chain(h, h[env].parent)

\* Env::lookup
RECURSIVE lookup(_, _, _)
lookup(h, env, name) ==
    IF env = NoParent THEN Err("FreeIdentifier")
    ELSE IF Binds(h, env, name) THEN Ok(h[env].bindings[name])
    ELSE lookup(h, h[env].parent, name)

\* Env::define
define(h, env, name, v) ==
    [h EXCEPT ![env].bindings =
        [n \in (DOMAIN @) \cup {name} |-> IF n = name THEN v ELSE @[n]]]

\* the frame Env::set writes: the nearest one of the chain that binds name
RECURSIVE Definer(_, _, _)
Definer(h, env, name) ==
    IF env = NoParent THEN NoParent
    ELSE IF Binds(h, env, name) THEN env
    ELSE Definer(h, h[env].parent, name)

\* Env::set: [res, heap]
set(h, env, name, v, returns) ==
    LET d == Definer(h, env, name) IN
    IF d = NoParent THEN [res |-> Err("FreeIdentifier"), heap |-> h]
    ELSE [res |-> Ok(CASE returns = "old" -> h[d].bindings[name]
                       [] returns = "new" -> v
                       [] OTHER -> Void),
          heap |-> define(h, d, name, v)]

\* Env::define_all on a frame made by Env::new(parent): [res, heap]
define_all(h, parent, names, values) ==
    IF Len(names) # Len(values) THEN [res |-> Err("ArityMismatch"), heap |-> h]
    ELSE LET bs == [n \in {names[j] : j \in 1..Len(names)} |->
                       values[CHOOSE j \in 1..Len(names) :
                                 names[j] = n /\ \A i \in (j+1)..Len(names) : names[i] # n]]
         IN  [res |-> Ok(Len(h) + 1), heap |-> Append(h, EnvFrame(parent, bs))]

\* the native functions Env::default_env binds
Natives == {"+", "-", "="}
AllNum(args) == \A j \in 1..Len(args) : args[j].t = "NumV"
RECURSIVE Sum(_)
Sum(args) == IF args = <<>> THEN 0 ELSE Head(args).n + Sum(Tail(args))
NativeCall(f, args) ==
    CASE f = "+" -> IF AllNum(args) THEN Ok(NumV(Sum(args))) ELSE Err("TypeMismatch")
      [] f = "-" -> IF Len(args) = 0 THEN Err("ArityMismatch")
                    ELSE IF ~AllNum(args) THEN Err("TypeMismatch")
                    ELSE Ok(NumV(Head(args).n - Sum(Tail(args))))
      [] f = "=" -> IF Len(args) = 0 THEN Err("ArityMismatch")
                    ELSE Ok(BoolV(\A j \in 1..Len(args) : args[j] = args[1]))
      [] OTHER -> Err("TypeMismatch")

default_env == EnvFrame(NoParent, [f \in Natives |-> FuncV(f)])
GlobalEnv == 1

-----------------------------------------------------------------------------
(* Pure helpers of evaluator.rs *)

\* check_length(what, tokens, expected)
check_length(tokens, expected) ==
    IF Len(tokens) = expected THEN Ok(Void) ELSE Err("ArityMismatch")

\* parse_list_of_identifiers(identifiers)
parse_list_of_identifiers(identifiers) ==
    IF IsList(identifiers)
    THEN Collect([j \in 1..Len(identifiers.l) |->
                    IF IsIdentifier(identifiers.l[j])
                    THEN Ok(identifiers.l[j].t.s) ELSE Err("TypeMismatch")])
    ELSE Err("TypeMismatch")

\* eval_atom(t, env)
eval_atom(t, env, h) ==
    CASE t.k = "BooleanLiteral" -> Ok(BoolV(t.b))
      [] t.k = "Identifier" -> lookup(h, env, t.s)
      [] t.k = "NumberLiteral" -> Ok(NumV(t.n))
      [] t.k = "StringLiteral" -> Ok(StringV(t.s))
      [] OTHER -> Err("UnexpectedToken")

\* eval_let rewriting the form to (begin (define n v).. body): the bindings are
\* made one after the other in the enclosing frame
eval_let_expr_defines(list_of_tokens) ==
    IF Len(list_of_tokens) # 2 THEN Err("ArityMismatch")
    ELSE LET bindings == list_of_tokens[1]
             body == list_of_tokens[2]
         IN  IF ~IsList(bindings) THEN Err("BadSyntax")
             ELSE IF \E j \in 1..Len(bindings.l) :
                        ~IsList(bindings.l[j]) \/ Len(bindings.l[j].l) # 2
             THEN Err("BadSyntax")
             ELSE Ok(ListVal(<<Id("begin")>>
                             \o [j \in 1..Len(bindings.l) |->
                                    ListVal(<<Id("define")>> \o bindings.l[j].l)]
                             \o <<body>>))

\* eval_let(list_of_tokens, _env): the application a let form is rewritten to
eval_let_expr(list_of_tokens) ==
    IF Len(list_of_tokens) # 2 THEN Err("ArityMismatch")
    ELSE LET bindings == list_of_tokens[1]
             body == list_of_tokens[2]
         IN  IF ~IsList(bindings) THEN Err("BadSyntax")
             ELSE IF \E j \in 1..Len(bindings.l) :
                        ~IsList(bindings.l[j]) \/ Len(bindings.l[j].l) # 2
             THEN Err("BadSyntax")
             ELSE LET bindings_to_check == [j \in 1..Len(bindings.l) |-> bindings.l[j].l[1]]
                      args_to_check == [j \in 1..Len(bindings.l) |-> bindings.l[j].l[2]]
                  IN  Ok(ListVal(<<ListVal(<<Id("lambda"), ListVal(bindings_to_check), body>>)>>
                                 \o args_to_check))

\* eval_if taking every value but #f for true
eval_if_branch_truthy(list_of_tokens, test) ==
    IF test # BoolV(FALSE) THEN list_of_tokens[2] ELSE list_of_tokens[3]

\* eval_if: the branch the loop goes on with, given the value of the test
eval_if_branch(list_of_tokens, test) ==
    IF test = BoolV(TRUE) THEN list_of_tokens[2] ELSE list_of_tokens[3]

\* eval_define, list form, keeping the name among the parameters
fake_lambda_keeps_name(list_of_identifiers, body) ==
    ListVal(<<Id("lambda"), ListVal(list_of_identifiers), body>>)

\* eval_define, list form: the lambda expression built for (define (name p..) body)
fake_lambda(list_of_identifiers, body) ==
    ListVal(<<Id("lambda"), ListVal(Tail(list_of_identifiers)), body>>)

-----------------------------------------------------------------------------
(* Activations of `evaluate` *)

Frame(expr, env) ==
    [expr |-> expr, env |-> env, pc |-> "loop", args |-> <<>>, i |-> 0,
     acc |-> <<>>, fv |-> Void]

Top == stack[Len(stack)]
SetTop(f) == [stack EXCEPT ![Len(stack)] = f]
In(pc) == stack # <<>> /\ Top.pc = pc

\* evaluate(e, env) called by the activation on top, which is left as f
Call(f, e, env) ==
    /\ stack' = Append(SetTop(f), Frame(e, env))
    /\ ret' = None

\* the activation on top returns r to its caller
Return(r) ==
    /\ stack' = SubSeq(stack, 1, Len(stack) - 1)
    /\ ret' = r

\* the activation on top goes on as f
Continue(f) ==
    /\ stack' = SetTop(f)
    /\ ret' = None

\* `expr = ..; env = ..;` and back to the top of the loop of evaluate
Loop(expr, env) == Frame(expr, env)

\* the tail form evaluated by a nested call, `return evaluate(&expr, &env)`
tail_recursive(expr, env) ==
    Call([Top EXCEPT !.pc = "eval_eval_expr", !.i = 2], expr, env)

\* a form in tail position: the loop of evaluate goes on with (expr, env) in the
\* same activation
tail(expr, env) == Continue(Loop(expr, env))

\* the activation on top enters a helper with the operands list_of_tokens[1..]
Enter(pc) == Continue([Top EXCEPT !.pc = pc, !.args = Tail(Top.expr.l), !.i = 0])

ParserVars == <<tokenizer, intern, rc, pstack, pret, collected>>
StreamVars == <<stream, items>>

Driver ==
    <<scenario, script, parsed, k, results, status, outcomes, setReturns, session, prev,
      ParserVars, StreamVars>>

\* the quote arm evaluating its operand: the loop goes on with it
eval_quote_evaluates(list_of_tokens) == tail(list_of_tokens[2], Top.env)

\* evaluate, the quote arm once the length is checked:
\* `return Ok(SteelVal::try_from(list_of_tokens[1].clone())?)`
eval_quote(list_of_tokens) == Return(ValFromExpr(list_of_tokens[2]))

SpecialForms ==
    {"quote", "if", "define", "lambda", "λ", "eval", "set!", "let", "begin", "and", "or"}

\* evaluate finding out that the operator is no function only when it calls
\* it, after the arguments have been evaluated
evaluate_applies_anything ==
    /\ UNCHANGED <<Driver, heap>>
    /\ \/ /\ In("loop")
          /\ Len(log) < MaxSteps
          /\ log' = Append(log, [expr |-> Top.expr, env |-> Top.env])
          /\ LET expr == Top.expr
                 f == IF IsList(expr) /\ expr.l # <<>> THEN Head(expr.l) ELSE expr
             IN  IF IsAtom(expr) THEN Return(eval_atom(expr.t, Top.env, heap))
                 ELSE IF expr.l = <<>> THEN Return(Err("TypeMismatch"))
                 ELSE IF IsNamed(f, "quote")
                 THEN IF IsErr(check_length(expr.l, 2))
                      THEN Return(check_length(expr.l, 2))
                      ELSE eval_quote(expr.l)
                 ELSE IF IsNamed(f, "if") THEN Enter("eval_if")
                 ELSE IF IsNamed(f, "define") THEN Enter("eval_define")
                 ELSE IF IsNamed(f, "lambda") \/ IsNamed(f, "λ") THEN Enter("eval_make_lambda")
                 ELSE IF IsNamed(f, "eval") THEN Enter("eval_eval_expr")
                 ELSE IF IsNamed(f, "set!") THEN Enter("eval_set")
                 ELSE IF IsNamed(f, "let") THEN Enter("eval_let")
                 ELSE IF IsNamed(f, "begin") THEN Enter("eval_begin")
                 ELSE IF IsNamed(f, "and") THEN Enter("eval_and")
                 ELSE IF IsNamed(f, "or") THEN Enter("eval_or")
                 ELSE Call([Top EXCEPT !.pc = "apply", !.args = Tail(expr.l)], f, Top.env)
       \/ /\ In("apply")
          /\ log' = log
          /\ IF IsErr(ret) THEN Return(ret)
             ELSE IF ret.v.t = "FuncV"
             THEN Continue([Top EXCEPT !.pc = "eval_func", !.fv = ret.v, !.i = 0, !.acc = <<>>])
             ELSE IF ret.v.t = "LambdaV"
             THEN Continue([Top EXCEPT !.pc = "eval_lambda", !.fv = ret.v, !.i = 0, !.acc = <<>>])
             ELSE Continue([Top EXCEPT !.pc = "eval_func", !.fv = FuncV("not a function"),
                                       !.i = 0, !.acc = <<>>])

\* evaluate taking a head that the environment binds for the operator of an
\* application, whatever its name
evaluate_bound_names_first ==
    /\ UNCHANGED <<Driver, heap>>
    /\ \/ /\ In("loop")
          /\ Len(log) < MaxSteps
          /\ log' = Append(log, [expr |-> Top.expr, env |-> Top.env])
          /\ LET expr == Top.expr
                 f == IF IsList(expr) /\ expr.l # <<>> THEN Head(expr.l) ELSE expr
             IN  IF IsAtom(expr) THEN Return(eval_atom(expr.t, Top.env, heap))
                 ELSE IF expr.l = <<>> THEN Return(Err("TypeMismatch"))
                 ELSE IF IsIdentifier(f) /\ IsOk(lookup(heap, Top.env, f.t.s))
                 THEN Call([Top EXCEPT !.pc = "apply", !.args = Tail(expr.l)], f, Top.env)
                 ELSE IF IsNamed(f, "quote")
                 THEN IF IsErr(check_length(expr.l, 2))
                      THEN Return(check_length(expr.l, 2))
                      ELSE eval_quote(expr.l)
                 ELSE IF IsNamed(f, "if") THEN Enter("eval_if")
                 ELSE IF IsNamed(f, "define") THEN Enter("eval_define")
                 ELSE IF IsNamed(f, "lambda") \/ IsNamed(f, "λ") THEN Enter("eval_make_lambda")
                 ELSE IF IsNamed(f, "eval") THEN Enter("eval_eval_expr")
                 ELSE IF IsNamed(f, "set!") THEN Enter("eval_set")
                 ELSE IF IsNamed(f, "let") THEN Enter("eval_let")
                 ELSE IF IsNamed(f, "begin") THEN Enter("eval_begin")
                 ELSE IF IsNamed(f, "and") THEN Enter("eval_and")
                 ELSE IF IsNamed(f, "or") THEN Enter("eval_or")
                 ELSE Call([Top EXCEPT !.pc = "apply", !.args = Tail(expr.l)], f, Top.env)
       \/ /\ In("apply")
          /\ log' = log
          /\ IF IsErr(ret) THEN Return(ret)
             ELSE IF ret.v.t = "FuncV"
             THEN Continue([Top EXCEPT !.pc = "eval_func", !.fv = ret.v, !.i = 0, !.acc = <<>>])
             ELSE IF ret.v.t = "LambdaV"
             THEN Continue([Top EXCEPT !.pc = "eval_lambda", !.fv = ret.v, !.i = 0, !.acc = <<>>])
             ELSE Return(Err("TypeMismatch"))

\* evaluate: the match at the top of the loop, and the application arm once
\* the operator has been evaluated
evaluate ==
    /\ UNCHANGED <<Driver, heap>>
    /\ \/ /\ In("loop")
          /\ Len(log) < MaxSteps
          /\ log' = Append(log, [expr |-> Top.expr, env |-> Top.env])
          /\ LET expr == Top.expr
                 f == IF IsList(expr) /\ expr.l # <<>> THEN Head(expr.l) ELSE expr
             IN  IF IsAtom(expr) THEN Return(eval_atom(expr.t, Top.env, heap))
                 ELSE IF expr.l = <<>> THEN Return(Err("TypeMismatch"))
                 ELSE IF IsNamed(f, "quote")
                 THEN IF IsErr(check_length(expr.l, 2))
                      THEN Return(check_length(expr.l, 2))
                      ELSE eval_quote(expr.l)
                 ELSE IF IsNamed(f, "if") THEN Enter("eval_if")
                 ELSE IF IsNamed(f, "define") THEN Enter("eval_define")
                 ELSE IF IsNamed(f, "lambda") \/ IsNamed(f, "λ") THEN Enter("eval_make_lambda")
                 ELSE IF IsNamed(f, "eval") THEN Enter("eval_eval_expr")
                 ELSE IF IsNamed(f, "set!") THEN Enter("eval_set")
                 ELSE IF IsNamed(f, "let") THEN Enter("eval_let")
                 ELSE IF IsNamed(f, "begin") THEN Enter("eval_begin")
                 ELSE IF IsNamed(f, "and") THEN Enter("eval_and")
                 ELSE IF IsNamed(f, "or") THEN Enter("eval_or")
                 ELSE Call([Top EXCEPT !.pc = "apply", !.args = Tail(expr.l)], f, Top.env)
       \/ /\ In("apply")
          /\ log' = log
          /\ IF IsErr(ret) THEN Return(ret)
             ELSE IF ret.v.t = "FuncV"
             THEN Continue([Top EXCEPT !.pc = "eval_func", !.fv = ret.v, !.i = 0, !.acc = <<>>])
             ELSE IF ret.v.t = "LambdaV"
             THEN Continue([Top EXCEPT !.pc = "eval_lambda", !.fv = ret.v, !.i = 0, !.acc = <<>>])
             ELSE Return(Err("TypeMismatch"))

\* eval_if checking the number of operands after the test has been evaluated
eval_if_checks_late ==
    /\ In("eval_if")
    /\ UNCHANGED <<Driver, heap, log>>
    /\ IF ret = None
       THEN IF Len(Top.args) >= 1
            THEN Call([Top EXCEPT !.i = 1], Top.args[1], Top.env)
            ELSE Return(Err("ArityMismatch"))
       ELSE IF IsErr(ret) THEN Return(ret)
            ELSE IF Len(Top.args) # 3 THEN Return(Err("ArityMismatch"))
            ELSE tail(eval_if_branch(Top.args, ret.v), Top.env)

\* eval_if(list_of_tokens, env)
eval_if ==
    /\ In("eval_if")
    /\ UNCHANGED <<Driver, heap, log>>
    /\ IF ret = None
       THEN IF Len(Top.args) = 3
            THEN Call([Top EXCEPT !.i = 1], Top.args[1], Top.env)
            ELSE Return(Err("ArityMismatch"))
       ELSE IF IsErr(ret) THEN Return(ret)
            ELSE tail(eval_if_branch(Top.args, ret.v), Top.env)

\* eval_make_lambda(list_of_tokens, parent_env)
eval_make_lambda ==
    /\ In("eval_make_lambda")
    /\ UNCHANGED <<Driver, heap, log>>
    /\ IF Len(Top.args) = 2
       THEN LET parsed_list == parse_list_of_identifiers(Top.args[1])
            IN  IF IsErr(parsed_list) THEN Return(parsed_list)
                ELSE Return(Ok(LambdaV(parsed_list.v, Top.args[2], Top.env)))
       ELSE Return(Err("ArityMismatch"))

\* eval_let(list_of_tokens, env)
eval_let ==
    /\ In("eval_let")
    /\ UNCHANGED <<Driver, heap, log>>
    /\ LET application == eval_let_expr(Top.args)
       IN  IF IsErr(application) THEN Return(application)
           ELSE tail(application.v, Top.env)

\* eval_begin going on after an operand that failed
eval_begin_ignores_failures ==
    /\ In("eval_begin")
    /\ UNCHANGED <<Driver, heap, log>>
    /\ IF Top.i + 1 < Len(Top.args)
       THEN Call([Top EXCEPT !.i = @ + 1], Top.args[Top.i + 1], Top.env)
       ELSE IF Top.args # <<>>
       THEN tail(Top.args[Len(Top.args)], Top.env)
       ELSE Return(Err("ArityMismatch"))

\* eval_begin(list_of_tokens, env): Top.i operands have been evaluated
eval_begin ==
    /\ In("eval_begin")
    /\ UNCHANGED <<Driver, heap, log>>
    /\ IF ret # None /\ IsErr(ret) THEN Return(ret)
       ELSE IF Top.i + 1 < Len(Top.args)
       THEN Call([Top EXCEPT !.i = @ + 1], Top.args[Top.i + 1], Top.env)
       ELSE IF Top.args # <<>>
       THEN tail(Top.args[Len(Top.args)], Top.env)
       ELSE Return(Err("ArityMismatch"))

\* eval_and stopping at every value but #t
and_stops_falsy(v) == v # BoolV(TRUE)

\* eval_and: does the loop over the operands stop at the value v
and_stops(v) == v = BoolV(FALSE)

\* eval_and(list_of_tokens, env): Top.i operands have been evaluated
eval_and ==
    /\ In("eval_and")
    /\ UNCHANGED <<Driver, heap, log>>
    /\ IF ret # None /\ IsErr(ret) THEN Return(ret)
       ELSE IF ret # None /\ and_stops(ret.v) THEN Return(Ok(BoolV(FALSE)))
       ELSE IF Top.i < Len(Top.args)
       THEN Call([Top EXCEPT !.i = @ + 1], Top.args[Top.i + 1], Top.env)
       ELSE Return(Ok(BoolV(TRUE)))

\* eval_or stopping at every value but #f
or_stops_truthy(v) == v # BoolV(FALSE)

\* eval_or: does the loop over the operands stop at the value v
or_stops(v) == v = BoolV(TRUE)

\* eval_or(list_of_tokens, env): Top.i operands have been evaluated
eval_or ==
    /\ In("eval_or")
    /\ UNCHANGED <<Driver, heap, log>>
    /\ IF ret # None /\ IsErr(ret) THEN Return(ret)
       ELSE IF ret # None /\ or_stops(ret.v) THEN Return(Ok(BoolV(TRUE)))
       ELSE IF Top.i < Len(Top.args)
       THEN Call([Top EXCEPT !.i = @ + 1], Top.args[Top.i + 1], Top.env)
       ELSE Return(Ok(BoolV(FALSE)))

\* eval_func dropping an argument that fails and going on with the next
eval_func_skips_failures ==
    /\ In("eval_func")
    /\ UNCHANGED <<Driver, heap, log>>
    /\ LET args_eval == IF ret = None \/ IsErr(ret) THEN Top.acc ELSE Append(Top.acc, ret.v)
       IN  IF Top.i < Len(Top.args)
           THEN Call([Top EXCEPT !.i = @ + 1, !.acc = args_eval],
                     Top.args[Top.i + 1], Top.env)
           ELSE Return(NativeCall(Top.fv.f, args_eval))

\* eval_func evaluating the arguments from the right
eval_func_right_to_left ==
    /\ In("eval_func")
    /\ UNCHANGED <<Driver, heap, log>>
    /\ IF ret # None /\ IsErr(ret) THEN Return(ret)
       ELSE LET args_eval == IF ret = None THEN Top.acc ELSE <<ret.v>> \o Top.acc
            IN  IF Top.i < Len(Top.args)
                THEN Call([Top EXCEPT !.i = @ + 1, !.acc = args_eval],
                          Top.args[Len(Top.args) - Top.i], Top.env)
                ELSE Return(NativeCall(Top.fv.f, args_eval))

\* eval_func(func, list_of_tokens, env): Top.acc holds the argument values so far
eval_func ==
    /\ In("eval_func")
    /\ UNCHANGED <<Driver, heap, log>>
    /\ IF ret # None /\ IsErr(ret) THEN Return(ret)
       ELSE LET args_eval == IF ret = None THEN Top.acc ELSE Append(Top.acc, ret.v)
            IN  IF Top.i < Len(Top.args)
                THEN Call([Top EXCEPT !.i = @ + 1, !.acc = args_eval],
                          Top.args[Top.i + 1], Top.env)
                ELSE Return(NativeCall(Top.fv.f, args_eval))

\* eval_lambda building the new environment over the caller's environment
eval_lambda_parent_caller(lambda, env) == env

\* eval_lambda: the parent of the new environment, `lambda.parent_env()`
eval_lambda_parent(lambda, env) == lambda.parent_env

\* eval_lambda comparing the number of arguments with the number of parameters
\* before it evaluates the arguments
eval_lambda_checks_early ==
    /\ In("eval_lambda")
    /\ UNCHANGED <<Driver, log>>
    /\ IF ret # None /\ IsErr(ret) THEN Return(ret) /\ heap' = heap
       ELSE IF Len(Top.args) # Len(Top.fv.params_exp)
       THEN Return(Err("ArityMismatch")) /\ heap' = heap
       ELSE LET args_eval == IF ret = None THEN Top.acc ELSE Append(Top.acc, ret.v)
            IN  IF Top.i < Len(Top.args)
                THEN /\ Call([Top EXCEPT !.i = @ + 1, !.acc = args_eval],
                             Top.args[Top.i + 1], Top.env)
                     /\ heap' = heap
                ELSE LET inner == define_all(heap, eval_lambda_parent(Top.fv, Top.env),
                                             Top.fv.params_exp, args_eval)
                     IN  /\ heap' = inner.heap
                         /\ IF IsErr(inner.res) THEN Return(inner.res)
                            ELSE tail(Top.fv.body_exp, inner.res.v)

\* eval_lambda(lambda, list_of_tokens, env), and the loop going on with its result
eval_lambda ==
    /\ In("eval_lambda")
    /\ UNCHANGED <<Driver, log>>
    /\ IF ret # None /\ IsErr(ret) THEN Return(ret) /\ heap' = heap
       ELSE LET args_eval == IF ret = None THEN Top.acc ELSE Append(Top.acc, ret.v)
            IN  IF Top.i < Len(Top.args)
                THEN /\ Call([Top EXCEPT !.i = @ + 1, !.acc = args_eval],
                             Top.args[Top.i + 1], Top.env)
                     /\ heap' = heap
                ELSE LET inner == define_all(heap, eval_lambda_parent(Top.fv, Top.env),
                                             Top.fv.params_exp, args_eval)
                     IN  /\ heap' = inner.heap
                         /\ IF IsErr(inner.res) THEN Return(inner.res)
                            ELSE tail(Top.fv.body_exp, inner.res.v)

\* eval_set writing through the global environment instead of env
eval_set_write_global(h, env, symbol, value) ==
    IF IsIdentifier(symbol) THEN set(h, GlobalEnv, symbol.t.s, value, setReturns)
    ELSE [res |-> Err("TypeMismatch"), heap |-> h]

\* eval_set binding the name in env instead of assigning to it
eval_set_write_define(h, env, symbol, value) ==
    IF IsIdentifier(symbol)
    THEN [res |-> Ok(Void), heap |-> define(h, env, symbol.t.s, value)]
    ELSE [res |-> Err("TypeMismatch"), heap |-> h]

\* eval_set, once the value is there: [res, heap]
eval_set_write(h, env, symbol, value) ==
    IF IsIdentifier(symbol) THEN set(h, env, symbol.t.s, value, setReturns)
    ELSE [res |-> Err("TypeMismatch"), heap |-> h]

\* eval_set matching the symbol before it evaluates the operand
eval_set_matches_symbol_first ==
    /\ In("eval_set")
    /\ UNCHANGED <<Driver, log>>
    /\ IF ret = None
       THEN /\ heap' = heap
            /\ IF Len(Top.args) = 2
               THEN IF IsIdentifier(Top.args[1])
                    THEN Call([Top EXCEPT !.i = 1], Top.args[2], Top.env)
                    ELSE Return(Err("TypeMismatch"))
               ELSE Return(Err("ArityMismatch"))
       ELSE IF IsErr(ret) THEN Return(ret) /\ heap' = heap
       ELSE LET w == eval_set_write(heap, Top.env, Top.args[1], ret.v)
            IN  heap' = w.heap /\ Return(w.res)

\* eval_set(list_of_tokens, env)
eval_set ==
    /\ In("eval_set")
    /\ UNCHANGED <<Driver, log>>
    /\ IF ret = None
       THEN /\ heap' = heap
            /\ IF Len(Top.args) = 2
               THEN Call([Top EXCEPT !.i = 1], Top.args[2], Top.env)
               ELSE Return(Err("ArityMismatch"))
       ELSE IF IsErr(ret) THEN Return(ret) /\ heap' = heap
       ELSE LET w == eval_set_write(heap, Top.env, Top.args[1], ret.v)
            IN  heap' = w.heap /\ Return(w.res)

\* eval_eval_expr evaluating the expression in the global environment
eval_eval_expr_env_global(env) == GlobalEnv

\* eval_eval_expr: the environment the expression got from the value is evaluated in
eval_eval_expr_env(env) == env

\* eval_eval_expr(list_of_tokens, env)
eval_eval_expr ==
    /\ In("eval_eval_expr")
    /\ UNCHANGED <<Driver, heap, log>>
    /\ IF ret = None
       THEN IF Len(Top.args) = 1
            THEN Call([Top EXCEPT !.i = 1], Top.args[1], Top.env)
            ELSE Return(Err("ArityMismatch"))
       ELSE IF Top.i = 1
       THEN IF IsErr(ret) THEN Return(ret)
            ELSE IF IsOk(ExprFromVal(ret.v))
            THEN Call([Top EXCEPT !.i = 2], ExprFromVal(ret.v).v, eval_eval_expr_env(Top.env))
            ELSE Return(Err("ContractViolation"))
       ELSE Return(ret)

\* eval_define assigning to the nearest frame that binds the name, if there is one
eval_define_bind_nearest(h, env, name, v) ==
    IF Definer(h, env, name) # NoParent THEN define(h, Definer(h, env, name), name, v)
    ELSE define(h, env, name, v)

\* eval_define, once the value is there: env.borrow_mut().define(s, eval_body)
eval_define_bind(h, env, name, v) == define(h, env, name, v)

\* eval_define binding the name to Void when the value expression fails
eval_define_binds_on_failure ==
    /\ In("eval_define")
    /\ UNCHANGED <<Driver, log>>
    /\ IF ret = None
       THEN /\ heap' = heap
            /\ IF Len(Top.args) # 2 THEN Return(Err("ArityMismatch"))
               ELSE LET symbol == Top.args[1]
                        body == Top.args[2]
                    IN  IF IsIdentifier(symbol)
                        THEN Call([Top EXCEPT !.i = 1, !.acc = <<symbol.t.s>>], body, Top.env)
                        ELSE IF IsList(symbol) /\ symbol.l # <<>> /\ IsIdentifier(symbol.l[1])
                        THEN Call([Top EXCEPT !.i = 2, !.acc = <<symbol.l[1].t.s>>],
                                  fake_lambda(symbol.l, body), Top.env)
                        ELSE Return(Err("TypeMismatch"))
       ELSE IF IsErr(ret)
       THEN /\ heap' = eval_define_bind(heap, Top.env, Top.acc[1], Void)
            /\ Return(ret)
       ELSE /\ heap' = eval_define_bind(heap, Top.env, Top.acc[1], ret.v)
            /\ Return(Ok(Void))

\* eval_define(list_of_tokens, env), and the `.map(|_| SteelVal::Void)` of its caller
eval_define ==
    /\ In("eval_define")
    /\ UNCHANGED <<Driver, log>>
    /\ IF ret = None
       THEN /\ heap' = heap
            /\ IF Len(Top.args) # 2 THEN Return(Err("ArityMismatch"))
               ELSE LET symbol == Top.args[1]
                        body == Top.args[2]
                    IN  IF IsIdentifier(symbol)
                        THEN Call([Top EXCEPT !.i = 1, !.acc = <<symbol.t.s>>], body, Top.env)
                        ELSE IF IsList(symbol) /\ symbol.l # <<>> /\ IsIdentifier(symbol.l[1])
                        THEN Call([Top EXCEPT !.i = 2, !.acc = <<symbol.l[1].t.s>>],
                                  fake_lambda(symbol.l, body), Top.env)
                        ELSE Return(Err("TypeMismatch"))
       ELSE IF IsErr(ret) THEN Return(ret) /\ heap' = heap
       ELSE /\ heap' = eval_define_bind(heap, Top.env, Top.acc[1], ret.v)
            /\ Return(Ok(Void))

-----------------------------------------------------------------------------
(* The driver: Evaluator::new, Evaluator::eval, Evaluator::parse_and_eval *)

\* Evaluator::eval(expr): evaluate(&expr, &self.global_env)
eval ==
    /\ status = "running" /\ stack = <<>> /\ ret = None
    /\ k <= Len(parsed)
    /\ stack' = <<Frame(parsed[k], GlobalEnv)>>
    /\ UNCHANGED <<Driver, ret, heap, log>>

\* parse_and_eval evaluating every form before it collects the results
parse_and_eval_evaluates_all ==
    /\ stack = <<>>
    /\ UNCHANGED <<scenario, setReturns, session, prev, stack, heap, log, ParserVars,
                   StreamVars>>
    /\ \/ /\ status = "idle" /\ script # <<>>
          /\ parsed' = Head(script) /\ script' = Tail(script)
          /\ k' = 1 /\ results' = <<>> /\ status' = "running"
          /\ UNCHANGED <<outcomes, ret>>
       \/ /\ status = "running" /\ (ret # None \/ k > Len(parsed))
          /\ ret' = None
          /\ UNCHANGED <<script, parsed>>
          /\ LET rs == IF ret = None THEN results ELSE Append(results, ret)
                 k2 == IF ret = None THEN k ELSE k + 1
             IN  IF k2 > Len(parsed)
                 THEN /\ outcomes' = Append(outcomes, Collect(rs))
                      /\ status' = "idle"
                      /\ k' = k2 /\ results' = rs
                 ELSE /\ k' = k2 /\ results' = rs
                      /\ UNCHANGED <<outcomes, status>>

\* Evaluator::parse_and_eval(expr_str): the parsed forms are evaluated in order
\* and collected into a Result<Vec<SteelVal>>
parse_and_eval ==
    /\ stack = <<>>
    /\ UNCHANGED <<scenario, setReturns, session, prev, stack, heap, log, ParserVars,
                   StreamVars>>
    /\ \/ /\ status = "idle" /\ script # <<>>
          /\ parsed' = Head(script) /\ script' = Tail(script)
          /\ k' = 1 /\ results' = <<>> /\ status' = "running"
          /\ UNCHANGED <<outcomes, ret>>
       \/ /\ status = "running" /\ (ret # None \/ k > Len(parsed))
          /\ ret' = None
          /\ UNCHANGED <<script, parsed>>
          /\ IF ret # None /\ IsErr(ret)
             THEN /\ outcomes' = Append(outcomes, ret)
                  /\ status' = "idle"
                  /\ UNCHANGED <<k, results>>
             ELSE LET rs == IF ret = None THEN results ELSE Append(results, ret.v)
                      k2 == IF ret = None THEN k ELSE k + 1
                  IN  IF k2 > Len(parsed)
                      THEN /\ outcomes' = Append(outcomes, Ok(rs))
                           /\ status' = "idle"
                           /\ k' = k2 /\ results' = rs
                      ELSE /\ k' = k2 /\ results' = rs
                           /\ UNCHANGED <<outcomes, status>>

-----------------------------------------------------------------------------
(* The parser: parser/mod.rs *)

\* ParseError
UnexpectedEOF == [p |-> "UnexpectedEOF"]
Unexpected(t) == [p |-> "Unexpected", t |-> t]
TokenError == [p |-> "TokenError"]

\* Option::None, returned by Parser::next when the tokens have run out
End == [r |-> "End"]

\* an activation of Parser::next: about to take a token ("start"), or waiting
\* for the operand of a quote marker ("quote"), or for read_from_tokens ("list")
NextFrame == [fn |-> "next", pc |-> "start"]
\* an activation of read_from_tokens with its two locals
ReadFrame ==
    [fn |-> "read_from_tokens", pc |-> "loop", stack |-> <<>>, current_frame |-> <<>>]

PTop == pstack[Len(pstack)]
SetPTop(f) == [pstack EXCEPT ![Len(pstack)] = f]
PIn(fn) == pstack # <<>> /\ PTop.fn = fn

\* the activation on top, left as f, calls g
PCall(f, g) ==
    /\ pstack' = Append(SetPTop(f), g)
    /\ pret' = None

\* the activation on top returns r to its caller
PReturn(r) ==
    /\ pstack' = SubSeq(pstack, 1, Len(pstack) - 1)
    /\ pret' = r

\* the activation on top goes on as f
PContinue(f) ==
    /\ pstack' = SetPTop(f)
    /\ pret' = None

\* construct_quote making a quote symbol of its own for every quote form
construct_quote_fresh(val, table, store) ==
    LET store1 == Append(store, Id("quote"))
        store2 == Append(store1, val)
    IN  [expr |-> ListVal(<<Len(store1), Len(store2)>>), intern |-> table, rc |-> store2]

\* construct_quote registering a new quote symbol for every quote form
construct_quote_replaces(val, table, store) ==
    LET store1 == Append(store, Id("quote"))
        q == Len(store1)
        store2 == Append(store1, val)
    IN  [expr |-> ListVal(<<q, Len(store2)>>),
         intern |-> [s \in DOMAIN table \cup {"quote"} |-> IF s = "quote" THEN q ELSE table[s]],
         rc |-> store2]

\* construct_quote(val): [expr, intern, rc]
construct_quote(val, table, store) ==
    LET hit == "quote" \in DOMAIN table
        store1 == IF hit THEN store ELSE Append(store, Id("quote"))
        q == IF hit THEN table["quote"] ELSE Len(store1)
        store2 == Append(store1, val)
    IN  [expr |-> ListVal(<<q, Len(store2)>>),
         intern |-> IF hit THEN table ELSE table @@ ("quote" :> q),
         rc |-> store2]

\* `.unwrap_or(Err(ParseError::UnexpectedEOF))` of the operand of a quote marker
unwrap_or(r) == IF r = End THEN Err(UnexpectedEOF) ELSE r

\* Parser::next taking a close-paren for an atom
next_atom_any(tok) == Ok(Atom(tok))

\* Parser::next, the arms of a token that is neither quote marker nor open-paren
next_atom(tok) ==
    IF tok = CloseParen THEN Err(Unexpected(CloseParen)) ELSE Ok(Atom(tok))

\* Iterator::next for Parser
next ==
    /\ PIn("next")
    /\ UNCHANGED <<scenario, script, parsed, k, results, status, outcomes, stack, ret,
                   heap, log, setReturns, session, prev, collected, StreamVars>>
    /\ IF PTop.pc = "start"
       THEN /\ UNCHANGED <<intern, rc>>
            /\ IF tokenizer = <<>> THEN PReturn(End) /\ tokenizer' = tokenizer
               ELSE LET tok == Head(tokenizer)
                    IN  /\ tokenizer' = Tail(tokenizer)
                        /\ IF tok = BadToken THEN PReturn(Err(TokenError))
                           ELSE IF tok = QuoteTick
                           THEN PCall([PTop EXCEPT !.pc = "quote"], NextFrame)
                           ELSE IF tok = OpenParen
                           THEN PCall([PTop EXCEPT !.pc = "list"], ReadFrame)
                           ELSE PReturn(next_atom(tok))
       ELSE IF PTop.pc = "quote"
       THEN /\ tokenizer' = tokenizer
            /\ IF IsErr(unwrap_or(pret))
               THEN PReturn(unwrap_or(pret)) /\ UNCHANGED <<intern, rc>>
               ELSE LET c == construct_quote(pret.v, intern, rc)
                    IN  /\ intern' = c.intern /\ rc' = c.rc
                        /\ PReturn(Ok(c.expr))
       ELSE /\ UNCHANGED <<tokenizer, intern, rc>>
            /\ PReturn(pret)

\* read_from_tokens never pushing the frame in progress
open_paren_flat(f) == [f EXCEPT !.current_frame = <<>>]

\* read_from_tokens at an open-paren: the frame in progress is pushed
open_paren(f) == [f EXCEPT !.stack = Append(@, f.current_frame), !.current_frame = <<>>]

\* read_from_tokens closing the open lists when the tokens run out
end_of_tokens_closes(f) == Ok(ListVal(f.current_frame))

\* read_from_tokens when the tokens have run out
end_of_tokens(f) == Err(UnexpectedEOF)

\* Parser::read_from_tokens
read_from_tokens ==
    /\ PIn("read_from_tokens")
    /\ UNCHANGED <<scenario, script, parsed, k, results, status, outcomes, stack, ret,
                   heap, log, setReturns, session, prev, collected, StreamVars>>
    /\ IF PTop.pc = "quote"
       THEN /\ tokenizer' = tokenizer
            /\ IF IsErr(unwrap_or(pret))
               THEN PReturn(unwrap_or(pret)) /\ UNCHANGED <<intern, rc>>
               ELSE LET c == construct_quote(pret.v, intern, rc)
                        store == Append(c.rc, c.expr)
                    IN  /\ intern' = c.intern /\ rc' = store
                        /\ PContinue([PTop EXCEPT !.pc = "loop",
                                                  !.current_frame = Append(@, Len(store))])
       ELSE IF tokenizer = <<>>
       THEN PReturn(end_of_tokens(PTop)) /\ UNCHANGED <<tokenizer, intern, rc>>
       ELSE LET t == Head(tokenizer)
            IN  /\ tokenizer' = Tail(tokenizer)
                /\ IF t = BadToken
                   THEN PReturn(Err(TokenError)) /\ UNCHANGED <<intern, rc>>
                   ELSE IF t = QuoteTick
                   THEN /\ PCall([PTop EXCEPT !.pc = "quote"], NextFrame)
                        /\ UNCHANGED <<intern, rc>>
                   ELSE IF t = OpenParen
                   THEN PContinue(open_paren(PTop)) /\ UNCHANGED <<intern, rc>>
                   ELSE IF t = CloseParen
                   THEN IF PTop.stack # <<>>
                        THEN LET store == Append(rc, ListVal(PTop.current_frame))
                                 prev_frame == PTop.stack[Len(PTop.stack)]
                             IN  /\ rc' = store /\ intern' = intern
                                 /\ PContinue([PTop EXCEPT
                                        !.stack = SubSeq(@, 1, Len(@) - 1),
                                        !.current_frame = Append(prev_frame, Len(store))])
                        ELSE /\ PReturn(Ok(ListVal(PTop.current_frame)))
                             /\ UNCHANGED <<intern, rc>>
                   ELSE IF t.k = "Identifier"
                   THEN IF t.s \in DOMAIN intern
                        THEN /\ PContinue([PTop EXCEPT !.current_frame = Append(@, intern[t.s])])
                             /\ UNCHANGED <<intern, rc>>
                        ELSE LET store == Append(rc, Atom(t))
                             IN  /\ rc' = store
                                 /\ intern' = intern @@ (t.s :> Len(store))
                                 /\ PContinue([PTop EXCEPT
                                        !.current_frame = Append(@, Len(store))])
                   ELSE LET store == Append(rc, Atom(t))
                        IN  /\ rc' = store /\ intern' = intern
                            /\ PContinue([PTop EXCEPT !.current_frame = Append(@, Len(store))])

\* the expression a parsed expression stands for, the addresses of its
\* children followed through the store
RECURSIVE Tree(_, _)
Tree(store, x) ==
    IF IsAtom(x) THEN x ELSE ListVal([j \in 1..Len(x.l) |-> Tree(store, store[x.l[j]])])
Trees(store, xs) == [j \in 1..Len(xs) |-> Tree(store, xs[j])]

\* parse_and_eval evaluating the forms it parsed before the one that failed
parse_and_eval_keeps_parsed ==
    /\ pstack = <<>> /\ stack = <<>>
    /\ UNCHANGED <<scenario, setReturns, session, prev, stack, heap, log, intern, rc,
                   StreamVars>>
    /\ \/ /\ status = "idle" /\ script # <<>>
          /\ tokenizer' = Head(script) /\ script' = Tail(script)
          /\ status' = "parsing" /\ collected' = <<>>
          /\ pstack' = <<NextFrame>> /\ pret' = None
          /\ UNCHANGED <<outcomes, parsed, k, results, ret>>
       \/ /\ status = "parsing" /\ pret # None
          /\ UNCHANGED <<script, tokenizer, ret>>
          /\ pret' = None
          /\ IF pret = End
             THEN /\ parsed' = Trees(rc, collected)
                  /\ k' = 1 /\ results' = <<>> /\ status' = "running"
                  /\ UNCHANGED <<outcomes, pstack, collected>>
             ELSE IF IsErr(pret)
             THEN /\ parsed' = Trees(rc, collected)
                  /\ k' = 1 /\ results' = <<>> /\ status' = "running"
                  /\ UNCHANGED <<outcomes, pstack, collected>>
             ELSE /\ collected' = Append(collected, pret.v)
                  /\ pstack' = <<NextFrame>>
                  /\ UNCHANGED <<outcomes, status, parsed, k, results>>
       \/ /\ status = "running" /\ (ret # None \/ k > Len(parsed))
          /\ ret' = None
          /\ UNCHANGED <<script, parsed, ParserVars>>
          /\ IF ret # None /\ IsErr(ret)
             THEN /\ outcomes' = Append(outcomes, ret)
                  /\ status' = "idle"
                  /\ UNCHANGED <<k, results>>
             ELSE LET rs == IF ret = None THEN results ELSE Append(results, ret.v)
                      k2 == IF ret = None THEN k ELSE k + 1
                  IN  IF k2 > Len(parsed)
                      THEN /\ outcomes' = Append(outcomes, Ok(rs))
                           /\ status' = "idle"
                           /\ k' = k2 /\ results' = rs
                      ELSE /\ k' = k2 /\ results' = rs
                           /\ UNCHANGED <<outcomes, status>>

\* Evaluator::parse_and_eval(expr_str) as a whole: the input is parsed with
\* the intern_cache and collected, `parsed?` returns the ParseError, and the
\* forms are then evaluated in order
parse_and_eval_expr_str ==
    /\ pstack = <<>> /\ stack = <<>>
    /\ UNCHANGED <<scenario, setReturns, session, prev, stack, heap, log, intern, rc,
                   StreamVars>>
    /\ \/ /\ status = "idle" /\ script # <<>>
          /\ tokenizer' = Head(script) /\ script' = Tail(script)
          /\ status' = "parsing" /\ collected' = <<>>
          /\ pstack' = <<NextFrame>> /\ pret' = None
          /\ UNCHANGED <<outcomes, parsed, k, results, ret>>
       \/ /\ status = "parsing" /\ pret # None
          /\ UNCHANGED <<script, tokenizer, ret>>
          /\ pret' = None
          /\ IF pret = End
             THEN /\ parsed' = Trees(rc, collected)
                  /\ k' = 1 /\ results' = <<>> /\ status' = "running"
                  /\ UNCHANGED <<outcomes, pstack, collected>>
             ELSE IF IsErr(pret)
             THEN /\ outcomes' = Append(outcomes, pret)
                  /\ status' = "idle"
                  /\ UNCHANGED <<pstack, collected, parsed, k, results>>
             ELSE /\ collected' = Append(collected, pret.v)
                  /\ pstack' = <<NextFrame>>
                  /\ UNCHANGED <<outcomes, status, parsed, k, results>>
       \/ /\ status = "running" /\ (ret # None \/ k > Len(parsed))
          /\ ret' = None
          /\ UNCHANGED <<script, parsed, ParserVars>>
          /\ IF ret # None /\ IsErr(ret)
             THEN /\ outcomes' = Append(outcomes, ret)
                  /\ status' = "idle"
                  /\ UNCHANGED <<k, results>>
             ELSE LET rs == IF ret = None THEN results ELSE Append(results, ret.v)
                      k2 == IF ret = None THEN k ELSE k + 1
                  IN  IF k2 > Len(parsed)
                      THEN /\ outcomes' = Append(outcomes, Ok(rs))
                           /\ status' = "idle"
                           /\ k' = k2 /\ results' = rs
                      ELSE /\ k' = k2 /\ results' = rs
                           /\ UNCHANGED <<outcomes, status>>

\* Evaluator::parse_and_eval, its first statement:
\* Parser::new(expr_str, &mut self.intern_cache).collect::<Result<Vec<Expr>, _>>()
parse ==
    /\ pstack = <<>> /\ stack = <<>>
    /\ UNCHANGED <<scenario, parsed, k, results, stack, ret, heap, log, setReturns,
                   session, prev, intern, rc, StreamVars>>
    /\ \/ /\ status = "idle" /\ script # <<>>
          /\ tokenizer' = Head(script) /\ script' = Tail(script)
          /\ status' = "parsing" /\ collected' = <<>>
          /\ pstack' = <<NextFrame>> /\ pret' = None
          /\ UNCHANGED outcomes
       \/ /\ status = "parsing" /\ pret # None
          /\ UNCHANGED <<script, tokenizer>>
          /\ pret' = None
          /\ IF pret = End
             THEN /\ outcomes' = Append(outcomes, Ok(collected))
                  /\ status' = "idle"
                  /\ UNCHANGED <<pstack, collected>>
             ELSE IF IsErr(pret)
             THEN /\ outcomes' = Append(outcomes, pret)
                  /\ status' = "idle"
                  /\ UNCHANGED <<pstack, collected>>
             ELSE /\ collected' = Append(collected, pret.v)
                  /\ pstack' = <<NextFrame>>
                  /\ UNCHANGED <<outcomes, status>>

\* Drop for Evaluator, between two calls: the bindings of the global
\* environment and the intern_cache are cleared
drop ==
    /\ status = "idle" /\ stack = <<>> /\ pstack = <<>>
    /\ status' = "dropped"
    /\ heap' = [heap EXCEPT ![GlobalEnv].bindings = <<>>]
    /\ intern' = <<>>
    /\ UNCHANGED <<scenario, script, parsed, k, results, outcomes, stack, ret, log,
                   setReturns, session, prev, tokenizer, rc, pstack, pret, collected,
                   StreamVars>>

\* the parser before its first input: the intern_cache of Evaluator::new is empty
ParserInit ==
    /\ tokenizer = <<>> /\ intern = <<>> /\ rc = <<>>
    /\ pstack = <<>> /\ pret = None /\ collected = <<>>

-----------------------------------------------------------------------------
(* Lazy streams: steel_vm/lazy_stream.rs *)

\* LazyStream (values/lazy_stream.rs): the empty stream, and a first element
\* with the thunk of the rest
new_empty_stream == [empty_stream |-> TRUE, stream_first |-> Void, stream_thunk |-> Void]
stream_cons(first, thunk) ==
    [empty_stream |-> FALSE, stream_first |-> first, stream_thunk |-> thunk]
StreamV(s) == [t |-> "StreamV", s |-> s]
\* a closure of no parameter, by what its body does: it conses the first of
\* the elements l on the stream of the others, and at the end of l returns the
\* empty stream, fails, or returns a number; or it is (integers n)
Closure(body) == [t |-> "Closure", body_exp |-> body]
ListBody(l, end) == [gen |-> "list", l |-> l, end |-> end]
IntegersBody(n) == [gen |-> "integers", n |-> n]
\* the thunk of the stream of the elements l: at the end of l it may be a
\* number or a native function instead of a closure
ThunkOf(l, end) ==
    IF l = <<>> /\ end = "number" THEN NumV(0)
    ELSE IF l = <<>> /\ end = "native" THEN FuncV("+")
    ELSE Closure(ListBody(l, end))
\* (integers n): (stream-cons n (lambda () (integers (+ 1 n))))
integers(n) == stream_cons(NumV(n), Closure(IntegersBody(n + 1)))

\* vm(closure.body_exp(), ..): the value of the body of a closure of no parameter
vm(body) ==
    IF body.gen = "integers" THEN Ok(StreamV(integers(body.n)))
    ELSE IF body.l # <<>>
    THEN Ok(StreamV(stream_cons(NumV(Head(body.l)), ThunkOf(Tail(body.l), body.end))))
    ELSE CASE body.end = "empty" -> Ok(StreamV(new_empty_stream))
           [] body.end = "fails" -> Err("FreeIdentifier")
           [] OTHER -> Ok(NumV(0))

\* exec_func(stack_func, ..)
exec_func(stack_func) ==
    CASE stack_func.t = "FuncV" -> NativeCall(stack_func.f, <<>>)
      [] stack_func.t = "Closure" -> vm(stack_func.body_exp)
      [] OTHER -> Err("TypeMismatch")

\* what a call of LazyStreamIter::next came to when it panicked
Panicked == [r |-> "panic"]
Aborted == items # <<>> /\ items[Len(items)] = Panicked

\* LazyStreamIter::next returning the first element of the stream it moves to
LazyStreamIter_next_returns_next ==
    /\ Len(items) < MaxCalls /\ ~Aborted
    /\ UNCHANGED <<scenario, script, parsed, k, results, status, outcomes, stack, ret,
                   heap, log, setReturns, session, prev, ParserVars>>
    /\ IF stream.empty_stream
       THEN /\ items' = Append(items, None)
            /\ stream' = stream
       ELSE LET stream_first == stream.stream_first
                stream_thunk == stream.stream_thunk
                next_value == exec_func(stream_thunk)
            IN  IF IsOk(next_value)
                THEN IF next_value.v.t = "StreamV"
                     THEN /\ stream' = next_value.v.s
                          /\ items' = Append(items, Ok(next_value.v.s.stream_first))
                     ELSE /\ items' = Append(items, Panicked)
                          /\ stream' = stream
                ELSE /\ stream' = stream
                     /\ items' = Append(items, Ok(stream_first))

\* LazyStreamIter::next returning the failure of the thunk
LazyStreamIter_next_reports_failure ==
    /\ Len(items) < MaxCalls /\ ~Aborted
    /\ UNCHANGED <<scenario, script, parsed, k, results, status, outcomes, stack, ret,
                   heap, log, setReturns, session, prev, ParserVars>>
    /\ IF stream.empty_stream
       THEN /\ items' = Append(items, None)
            /\ stream' = stream
       ELSE LET stream_first == stream.stream_first
                stream_thunk == stream.stream_thunk
                next_value == exec_func(stream_thunk)
            IN  IF IsOk(next_value)
                THEN IF next_value.v.t = "StreamV"
                     THEN /\ stream' = next_value.v.s
                          /\ items' = Append(items, Ok(stream_first))
                     ELSE /\ items' = Append(items, Panicked)
                          /\ stream' = stream
                ELSE /\ stream' = stream
                     /\ items' = Append(items, next_value)

\* Iterator::next for LazyStreamIter: None is Option::None, Ok(v) is Some(Ok(v))
LazyStreamIter_next ==
    /\ Len(items) < MaxCalls /\ ~Aborted
    /\ UNCHANGED <<scenario, script, parsed, k, results, status, outcomes, stack, ret,
                   heap, log, setReturns, session, prev, ParserVars>>
    /\ IF stream.empty_stream
       THEN /\ items' = Append(items, None)
            /\ stream' = stream
       ELSE LET stream_first == stream.stream_first
                stream_thunk == stream.stream_thunk
                next_value == exec_func(stream_thunk)
            IN  IF IsOk(next_value)
                THEN IF next_value.v.t = "StreamV"
                     THEN /\ stream' = next_value.v.s
                          /\ items' = Append(items, Ok(stream_first))
                     ELSE /\ items' = Append(items, Panicked)
                          /\ stream' = stream
                ELSE /\ stream' = stream
                     /\ items' = Append(items, Ok(stream_first))

\* no stream iterator
StreamInit == stream = new_empty_stream /\ items = <<>>

-----------------------------------------------------------------------------
(* Scenarios: the inputs the evaluator is run on *)

App(f, args) == ListVal(<<f>> \o args)
Form(name, operands) == ListVal(<<Id(name)>> \o operands)
Def(x, e) == Form("define", <<Id(x), e>>)
DefFn(name, params, body) ==
    Form("define", <<ListVal(<<Id(name)>> \o [j \in 1..Len(params) |-> Id(params[j])]), body>>)
SetB(x, e) == Form("set!", <<Id(x), e>>)
If(c, a, b) == Form("if", <<c, a, b>>)
Begin(es) == Form("begin", es)
Lam(params, body) ==
    Form("lambda", <<ListVal([j \in 1..Len(params) |-> Id(params[j])]), body>>)
Let1(x, e, body) == Form("let", <<ListVal(<<ListVal(<<Id(x), e>>)>>), body>>)
Quote(e) == Form("quote", <<e>>)
Eval(e) == Form("eval", <<e>>)
\* (f) run in a fresh frame below the global one
InFrame(body) == App(Lam(<<>>, body), <<>>)

Scenario(id, p, calls) == [id |-> id, p |-> p, calls |-> calls]

\* literal expressions and the values they denote
Literals == {Num(1), Num(2), Bool(FALSE), Str("s")}
LitVal(e) ==
    CASE e = Num(1) -> NumV(1)
      [] e = Num(2) -> NumV(2)
      [] e = Bool(FALSE) -> BoolV(FALSE)
      [] e = Bool(TRUE) -> BoolV(TRUE)
      [] e = Num(0) -> NumV(0)
      [] e = Str("s") -> StringV("s")

\* C1: a self-tail-recursive count-down from n, the tail call standing in the
\* else branch of if, the then branch, the last form of begin, the body of let;
\* and a function whose whole body is the tail call (it never ends)
Dec(x) == App(Id("-"), <<Id(x), Num(1)>>)
IsZero(x) == App(Id("="), <<Id(x), Num(0)>>)
TailBody(way) ==
    CASE way = "else" -> If(IsZero("n"), Num(0), App(Id("loop"), <<Dec("n")>>))
      [] way = "then" -> If(App(Id("="), <<IsZero("n"), Bool(FALSE)>>),
                            App(Id("loop"), <<Dec("n")>>), Num(0))
      [] way = "begin" -> If(IsZero("n"), Num(0),
                             Begin(<<Id("n"), App(Id("loop"), <<Dec("n")>>)>>))
      [] way = "let" -> If(IsZero("n"), Num(0),
                           Let1("m", Dec("n"), App(Id("loop"), <<Id("m")>>)))
      [] way = "body" -> App(Id("loop"), <<Id("n")>>)
TailWays == {"else", "then", "begin", "let", "body"}
TailLoops ==
    {Scenario("tail", [way |-> w, n |-> n],
              <<<<DefFn("loop", <<"n">>, TailBody(w)), App(Id("loop"), <<Num(n)>>)>>>>) :
        w \in TailWays, n \in 0..MaxN}

\* the same count-down, not in tail position
NonTailLoops ==
    {Scenario("nontail", [n |-> n],
              <<<<DefFn("loop", <<"n">>,
                        If(IsZero("n"), Num(0),
                           App(Id("+"), <<Num(1), App(Id("loop"), <<Dec("n")>>)>>))),
                  App(Id("loop"), <<Num(n)>>)>>>>) :
        n \in 0..MaxN}


Names == {"a", "+"}
Places == {"global", "frame"}

\* C2: (define x v) (set! x v2) x, at top level and in a call's frame
DefSets ==
    {Scenario("defset", [x |-> x, v |-> v, v2 |-> v2, at |-> at],
              IF at = "global" THEN <<<<Def(x, v), SetB(x, v2), Id(x)>>>>
              ELSE <<<<InFrame(Begin(<<Def(x, v), SetB(x, v2), Id(x)>>))>>>>) :
        x \in Names, v \in Literals, v2 \in Literals, at \in Places}

\* C3: (set! x e) with x unbound, at top level, in a call's frame and in a frame
\* below that; e a literal or a form with an effect of its own; then x is looked up
Unbound == {"a", "b"}
SetOperands == {Num(1), Str("s"), Begin(<<Def("c", Num(1)), Num(2)>>)}
SetUnbounds ==
    {Scenario("setunbound", [x |-> x, e |-> e, at |-> at],
              <<<<CASE at = "global" -> SetB(x, e)
                    [] at = "frame" -> InFrame(SetB(x, e))
                    [] at = "frame2" -> InFrame(InFrame(SetB(x, e)))>>,
                <<Id(x)>>>>) :
        x \in Unbound, e \in SetOperands, at \in Places \cup {"frame2"}}

\* C4: a define of a name that is already bound, in the same frame and in a child
\* frame of the frame that binds it
Defines ==
    {Scenario("define", [x |-> x, v |-> v, v2 |-> v2, at |-> at],
              IF at = "global" THEN <<<<Def(x, v), Def(x, v2), Id(x)>>>>
              ELSE <<<<Def(x, v), InFrame(Begin(<<Def(x, v2), Id(x)>>)), Id(x)>>>>) :
        x \in Names, v \in Literals, v2 \in Literals, at \in Places}

\* C5: set! in a closure body on a variable of the defining frame, called twice
\* in one input and once more in a later input; and set! from a frame that does
\* not bind x, below a frame that binds x, below the global frame that binds x
Plus1(x) == App(Id("+"), <<Id(x), Num(1)>>)
Sets ==
    {Scenario("counter", [n |-> 0],
              <<<<Def("x", Num(1)), Def("inc", Lam(<<>>, SetB("x", Plus1("x")))),
                  App(Id("inc"), <<>>), App(Id("inc"), <<>>), Id("x")>>,
                <<App(Id("inc"), <<>>), Id("x")>>>>)}
    \cup
    {Scenario("setshadow", [v |-> v, v2 |-> v2, v3 |-> v3],
              <<<<Def("x", v),
                  App(Lam(<<"x">>, InFrame(Begin(<<SetB("x", v2), Id("x")>>))), <<v3>>),
                  Id("x")>>>>) :
        v \in Literals, v2 \in Literals, v3 \in {Num(1), Bool(FALSE)}}


\* C6: (if T A B): T binds c and has the value of the test c, A binds t, B binds e
IfTests ==
    {<<Bool(TRUE), TRUE>>, <<App(Id("="), <<Num(1), Num(1)>>), TRUE>>,
     <<Bool(FALSE), FALSE>>, <<Num(0), FALSE>>, <<Num(1), FALSE>>, <<Str("s"), FALSE>>,
     <<Str("#t"), FALSE>>, <<Id("+"), FALSE>>, <<Quote(ListVal(<<>>)), FALSE>>,
     <<Quote(Id("a")), FALSE>>, <<Lam(<<>>, Bool(TRUE)), FALSE>>,
     <<Def("z", Bool(TRUE)), FALSE>>}
IfTest(c) == Begin(<<Def("c", Num(0)), c>>)
IfThen == Begin(<<Def("t", Num(1)), Num(1)>>)
IfElse == Begin(<<Def("e", Num(2)), Num(2)>>)
Ifs ==
    {Scenario("if", [c |-> t[1], truth |-> t[2]],
              <<<<If(IfTest(t[1]), IfThen, IfElse)>>>>) : t \in IfTests}

\* C7: every special form with every wrong number of operands up to 4, each
\* operand a define of z, at top level and in the frame of a call
Operand == Def("z", Num(1))
Arities(f) ==
    CASE f \in {"quote", "eval"} -> {1}
      [] f \in {"define", "lambda", "λ", "set!", "let"} -> {2}
      [] f = "if" -> {3}
      [] f = "begin" -> 1..4
CheckedForms == {"quote", "if", "define", "lambda", "λ", "eval", "set!", "let", "begin"}
WrongArities ==
    UNION {{Scenario("arity", [form |-> f, n |-> n, at |-> at],
                     LET form == Form(f, [j \in 1..n |-> Operand])
                     IN  <<<<IF at = "global" THEN form ELSE InFrame(form)>>>>) :
               n \in (0..4) \ Arities(f), at \in Places} :
           f \in CheckedForms}

\* C8, C9: (and e1..en) and (or e1..en), n <= MaxOperands; operand j binds c to j
\* and has the value of a literal: #t, #f or the number 1
OperandValues == {Bool(TRUE), Bool(FALSE), Num(1)}
OperandAt(j, v) == Begin(<<Def("c", Num(j)), v>>)
OperandSeqs == UNION {[1..n -> OperandValues] : n \in 0..MaxOperands}
AndOrs ==
    {Scenario(f, [vs |-> vs],
              <<<<Form(f, [j \in 1..Len(vs) |-> OperandAt(j, vs[j])])>>>>) :
        f \in {"and", "or"}, vs \in OperandSeqs}

\* C10: an expression e evaluated in the frame of a call that binds y, below the
\* global frame that binds x
RoundTripExprs ==
    {Id("y"), Id("u"), Num(1), Str("s"), SetB("y", Num(2)), SetB("x", Id("y")),
     SetB("u", Num(2)), Def("y", Num(3)), Def("w", Id("y")), Plus1("y"),
     Lam(<<"z">>, Id("y")), DefFn("f", <<"z">>, Id("y")), Quote(Id("y")),
     Quote(ListVal(<<Id("y"), Num(1)>>)), Eval(Quote(Id("y"))), Eval(Id("y")),
     If(Id("y"), SetB("y", Num(2)), SetB("x", Num(2))), Begin(<<>>), ListVal(<<>>),
     Let1("y", Plus1("y"), SetB("x", Id("y"))), InFrame(Def("y", Num(2))),
     Form("and", <<SetB("y", Bool(FALSE)), Id("y"), SetB("x", Num(3))>>),
     Form("or", <<Id("y"), SetB("y", Bool(TRUE)), Id("y"), SetB("x", Num(3))>>),
     App(Id("y"), <<SetB("x", Num(2))>>)}
RoundTripIn(e) == <<<<Def("x", Num(1)), App(Lam(<<"y">>, e), <<Num(5)>>), Id("x")>>>>
RoundTrips == {Scenario("roundtrip", [e |-> e], RoundTripIn(e)) : e \in RoundTripExprs}

\* C11: (quote x), x holding unbound identifiers and forms that would bind,
\* assign, call or fail if they were evaluated; at top level and in a call's frame
Data ==
    {Id("u"), Num(1), ListVal(<<>>), ListVal(<<Id("u"), Id("v"), Str("s")>>),
     Def("a", Num(1)), SetB("+", Num(1)), SetB("u", Num(1)), App(Id("u"), <<Num(1)>>),
     App(Id("+"), <<Num(1), Num(2)>>), If(Id("u"), Def("a", Num(1)), Def("b", Num(2))),
     Form("quote", <<>>), Quote(Def("a", Num(1))), Eval(Def("a", Num(1))),
     Lam(<<"z">>, SetB("+", Id("z"))), ListVal(<<ListVal(<<Def("a", Num(1))>>), Id("u")>>)}
Quotes ==
    {Scenario("quote", [x |-> x, at |-> at],
              <<<<IF at = "global" THEN Quote(x) ELSE InFrame(Quote(x))>>>>) :
        x \in Data, at \in Places}

\* C12: closures called from a frame that binds the name y they refer to, a
\* closure made in a call's frame and called after the call, arguments naming the
\* caller's y, two parameters, and the same closure called again
Lexicals ==
    {Scenario("lexical", [v1 |-> v1, v2 |-> v2],
              <<<<Def("y", v1),
                  Def("f", Lam(<<>>, Id("y"))),
                  Def("g", Lam(<<"y">>, App(Id("f"), <<>>))),
                  App(Id("g"), <<v2>>),
                  Def("mk", Lam(<<"y">>, Lam(<<>>, Id("y")))),
                  Def("k", App(Id("mk"), <<v2>>)),
                  App(Id("k"), <<>>),
                  Def("id", Lam(<<"a">>, Id("a"))),
                  App(Lam(<<"y">>, App(Id("id"), <<Id("y")>>)), <<v2>>),
                  App(Lam(<<"a", "b">>, Id("b")), <<v1, v2>>),
                  App(Id("g"), <<v2>>),
                  Id("y")>>>>) :
        v1 \in Literals, v2 \in Literals}

\* C13: a closure of k parameters called with m # k arguments, argument j
\* binding c to j in the caller's frame, the body binding b; the closure is the
\* lambda form itself or the value of a name, the call at top level or in a frame
Params == <<"p", "q">>
ArgAt(j) == Def("c", Num(j))
Body == Def("b", Num(1))
Hows == {"lambda", "named"}
ClosureCall(n, m, how, at) ==
    LET closure == Lam(SubSeq(Params, 1, n), Body)
        call == App(IF how = "lambda" THEN closure ELSE Id("f"), [j \in 1..m |-> ArgAt(j)])
        placed == IF at = "global" THEN call ELSE InFrame(call)
    IN  Scenario("closurearity", [k |-> n, m |-> m, how |-> how, at |-> at],
                 <<IF how = "lambda" THEN <<placed>> ELSE <<Def("f", closure), placed>>>>)
ClosureArities ==
    {ClosureCall(nm[1], nm[2], how, at) :
        nm \in {nm \in (0..Len(Params)) \X (0..MaxOperands) : nm[1] # nm[2]},
        how \in Hows, at \in Places}

\* C14: let forms in a frame that binds a to enc (the global frame, or the
\* frame of a call), each with the value it has, Ok(bindings) of the frame its
\* body runs in, and the same input with the application written out
LetForm(bs, body) ==
    Form("let", <<ListVal([j \in 1..Len(bs) |-> ListVal(bs[j])]), body>>)
LetApp(bs, body) ==
    App(ListVal(<<Id("lambda"), ListVal([j \in 1..Len(bs) |-> bs[j][1]]), body>>),
        [j \in 1..Len(bs) |-> bs[j][2]])
LetCase(bs, body, want, child) == [bs |-> bs, body |-> body, want |-> want, child |-> child]
LetCases(enc) ==
    {LetCase(<<<<Id("a"), Num(10)>>, <<Id("b"), Num(20)>>>>,
             App(Id("+"), <<Id("a"), Id("b")>>), Ok(NumV(30)),
             Ok([n \in {"a", "b"} |-> IF n = "a" THEN NumV(10) ELSE NumV(20)])),
     LetCase(<<<<Id("a"), Num(5)>>, <<Id("b"), Id("a")>>>>, Id("b"), Ok(enc),
             Ok([n \in {"a", "b"} |-> IF n = "a" THEN NumV(5) ELSE enc])),
     LetCase(<<<<Id("a"), Num(5)>>>>, Begin(<<SetB("a", Num(6)), Id("a")>>), Ok(NumV(6)),
             Ok([n \in {"a"} |-> NumV(6)])),
     LetCase(<<<<Id("a"), Num(5)>>>>, Def("d", Id("a")), Ok(Void),
             Ok([n \in {"a", "d"} |-> NumV(5)])),
     LetCase(<<>>, Num(7), Ok(NumV(7)), Ok(<<>>)),
     LetCase(<<<<Id("x"), Def("c", Num(1))>>, <<Id("y"), Def("c", Num(2))>>>>, Id("c"),
             Ok(NumV(2)), Ok([n \in {"x", "y"} |-> Void])),
     LetCase(<<<<Id("a"), Id("u")>>>>, Id("a"), Err("FreeIdentifier"), None),
     LetCase(<<<<Num(1), Num(2)>>>>, Num(3), Err("TypeMismatch"), None)}
LetIn(at, form) ==
    <<<<Def("a", Num(1)),
        IF at = "global" THEN form ELSE App(Lam(<<"a">>, form), <<Num(3)>>),
        Id("a")>>>>
Enclosing(at) == IF at = "global" THEN NumV(1) ELSE NumV(3)
Lets ==
    UNION {{Scenario("let", [c |-> c, at |-> at, plain |-> LetIn(at, LetApp(c.bs, c.body))],
                     LetIn(at, LetForm(c.bs, c.body))) :
               c \in LetCases(Enclosing(at))} :
           at \in Places}

\* let forms whose bindings operand is not a list, or holds a binding that is
\* not a list of two
BadBindings ==
    {Id("a"), Num(1), Str("s"), ListVal(<<Id("a")>>), ListVal(<<ListVal(<<Id("a")>>)>>),
     ListVal(<<ListVal(<<Id("a"), Num(1), Num(2)>>)>>), ListVal(<<ListVal(<<>>)>>),
     ListVal(<<ListVal(<<Id("a"), Num(5)>>), Id("b")>>),
     ListVal(<<ListVal(<<Id("a"), Def("c", Num(1))>>), ListVal(<<Id("b")>>)>>)}
BadLets ==
    {Scenario("letbad", [bindings |-> b, at |-> at],
              LetIn(at, Form("let", <<b, Def("d", Num(1))>>))) :
        b \in BadBindings, at \in Places}

\* C15: (define (name p..) body) and a call of name, at top level and in a
\* call's frame, with the value of the call and the same input with
\* (define name (lambda (p..) body)) written out
DefShort(name, params, body) == Form("define", <<ListVal(<<Id(name)>> \o params), body>>)
DefPlain(name, params, body) ==
    Form("define", <<Id(name), ListVal(<<Id("lambda"), ListVal(params), body>>)>>)
DefCase(name, params, body, args, want) ==
    [name |-> name, params |-> params, body |-> body, args |-> args, want |-> want]
DefCases ==
    {DefCase("sq", <<Id("x")>>, App(Id("+"), <<Id("x"), Id("x")>>), <<Num(5)>>, Ok(NumV(10))),
     DefCase("f", <<>>, Num(7), <<>>, Ok(NumV(7))),
     DefCase("add", <<Id("p"), Id("q")>>, App(Id("+"), <<Id("p"), Id("q")>>),
             <<Num(1), Num(2)>>, Ok(NumV(3))),
     DefCase("loop", <<Id("n")>>,
             If(IsZero("n"), Num(0), App(Id("+"), <<Num(1), App(Id("loop"), <<Dec("n")>>)>>)),
             <<Num(2)>>, Ok(NumV(2))),
     DefCase("+", <<Id("x")>>, Id("x"), <<Num(5)>>, Ok(NumV(5))),
     DefCase("f", <<Num(1)>>, Num(2), <<Num(3)>>, Err("TypeMismatch"))}
DefIn(at, c, def) ==
    LET call == App(Id(c.name), c.args)
    IN  IF at = "global" THEN <<<<def, call>>>> ELSE <<<<InFrame(Begin(<<def, call>>))>>>>
DefShorts ==
    {Scenario("defshort",
              [c |-> c, at |-> at, plain |-> DefIn(at, c, DefPlain(c.name, c.params, c.body))],
              DefIn(at, c, DefShort(c.name, c.params, c.body))) :
        c \in DefCases, at \in Places}

\* define forms with an empty list, or a list that does not start with an
\* identifier, in the name position
BadNames ==
    {ListVal(<<>>), ListVal(<<Num(1), Id("x")>>), ListVal(<<Str("s")>>),
     ListVal(<<ListVal(<<Id("f")>>), Id("x")>>), ListVal(<<Bool(FALSE)>>)}
BadDefs ==
    {Scenario("defbad", [name |-> n, at |-> at],
              LET form == Form("define", <<n, Def("c", Num(1))>>)
              IN  <<<<IF at = "global" THEN form ELSE InFrame(form)>>>>) :
        n \in BadNames, at \in Places}

\* C16: (begin e1..en), 1 <= n <= MaxOperands, at top level and in a call's
\* frame; ej binds c to j, or is the number j, or fails calling the unbound u
Kinds == {"def", "num", "fail"}
BeginOperand(j, kind) ==
    CASE kind = "def" -> Def("c", Num(j))
      [] kind = "num" -> Num(j)
      [] kind = "fail" -> App(Id("u"), <<Num(j)>>)
KindSeqs == UNION {[1..n -> Kinds] : n \in 1..MaxOperands}
Begins ==
    {Scenario("begin", [ks |-> ks, at |-> at],
              LET form == Begin([j \in 1..Len(ks) |-> BeginOperand(j, ks[j])])
              IN  <<<<IF at = "global" THEN form ELSE InFrame(form)>>>>) :
        ks \in KindSeqs, at \in Places}

\* C22: an input of 1..MaxOperands top-level forms, form j binding c to j,
\* assigning j to the global =, being the number j or failing on the unbound u;
\* then two inputs that look up c and =
BatchKinds == {"def", "set", "num", "fail"}
BatchForm(j, kind) ==
    IF kind = "set" THEN SetB("=", Num(j)) ELSE BeginOperand(j, kind)
BatchSeqs == UNION {[1..n -> BatchKinds] : n \in 1..MaxOperands}
Batches ==
    {Scenario("batch", [ks |-> ks],
              <<[j \in 1..Len(ks) |-> BatchForm(j, ks[j])], <<Id("c")>>, <<Id("=")>>>>) :
        ks \in BatchSeqs}

\* C23: an expression that fails, with the kind of its failure, in every
\* position of a sub-evaluation, alone or inside an argument or a call's frame;
\* Later is what comes after it in evaluation order
Fails ==
    {<<Id("u"), "FreeIdentifier">>, <<ListVal(<<>>), "TypeMismatch">>,
     <<Form("quote", <<>>), "ArityMismatch">>, <<Eval(Id("+")), "ContractViolation">>,
     <<Form("let", <<Num(1), Num(2)>>), "BadSyntax">>}
Later == Def("z", Num(1))
Positions ==
    {"operator", "native", "closure", "test", "define", "set!", "eval", "evaluated",
     "and", "or", "begin", "let"}
FailAt(pos, x) ==
    CASE pos = "operator" -> App(x, <<Later>>)
      [] pos = "native" -> App(Id("+"), <<Num(1), x, Later>>)
      [] pos = "closure" -> App(Lam(<<"p", "q", "r">>, Later), <<Num(1), x, Later>>)
      [] pos = "test" -> If(x, Later, Later)
      [] pos = "define" -> Begin(<<Def("d", x), Later>>)
      [] pos = "set!" -> Begin(<<SetB("+", x), Later>>)
      [] pos = "eval" -> Begin(<<Eval(x), Later>>)
      [] pos = "evaluated" -> Begin(<<Eval(Quote(x)), Later>>)
      [] pos = "and" -> Form("and", <<Bool(TRUE), x, Later>>)
      [] pos = "or" -> Form("or", <<Bool(FALSE), x, Later>>)
      [] pos = "begin" -> Begin(<<x, Later>>)
      [] pos = "let" -> LetForm(<<<<Id("a"), x>>, <<Id("b"), Later>>>>, Later)
Outers == {"none", "argument", "frame"}
FailIn(outer, e) ==
    CASE outer = "none" -> e
      [] outer = "argument" -> App(Id("="), <<e, Later>>)
      [] outer = "frame" -> Begin(<<InFrame(e), Later>>)
Failures ==
    {Scenario("failure", [pos |-> pos, outer |-> o, fails |-> f[1], kind |-> f[2]],
              <<<<FailIn(o, FailAt(pos, f[1]))>>, <<Id("z")>>>>) :
        pos \in Positions, o \in Outers, f \in Fails}

\* C24: an application whose operator has a value that is no function, with
\* 0..MaxOperands arguments, argument j binding c to j, and the empty list; at
\* top level and in a call's frame that binds v to a number
NotFunctions ==
    {Num(1), Str("s"), Bool(TRUE), Quote(Id("a")), Quote(ListVal(<<>>)), Id("v"),
     Def("w", Num(1)), Begin(<<Def("w", Num(1)), Num(2)>>), Quote(Lam(<<>>, Num(1)))}
ApplyIn(at, form) ==
    <<<<Def("v", Num(1)), IF at = "global" THEN form ELSE App(Lam(<<"v">>, form), <<Num(2)>>)>>,
      <<Id("v")>>>>
BadApplications ==
    {Scenario("notfunction", [op |-> op, m |-> m, at |-> at],
              ApplyIn(at, App(op, [j \in 1..m |-> ArgAt(j)]))) :
        op \in NotFunctions, m \in 0..MaxOperands, at \in Places}
    \cup {Scenario("emptylist", [at |-> at], ApplyIn(at, ListVal(<<>>))) : at \in Places}

\* C25: (eval e) and then y, in the frame of a call that binds y to 5 and q to
\* the datum (set! y 8), below the global frame that binds y to 1; then y is
\* looked up at top level.  e has the value of an expression that reads, assigns
\* or binds in the frame (local is the y of the frame afterwards), or a value
\* that stands for no expression
EvalCase(e, local) == [e |-> e, local |-> local]
EvalCases ==
    {EvalCase(Quote(Id("y")), NumV(5)), EvalCase(Quote(SetB("y", Num(7))), NumV(7)),
     EvalCase(Quote(Def("w", Id("y"))), NumV(5)), EvalCase(Quote(Def("y", Num(6))), NumV(6)),
     EvalCase(Num(3), NumV(5)), EvalCase(Id("q"), NumV(8)),
     EvalCase(Quote(Quote(SetB("y", Num(7)))), NumV(5)),
     EvalCase(Id("+"), None), EvalCase(Lam(<<>>, SetB("y", Num(7))), None),
     EvalCase(Def("c", Num(1)), None)}
EvalIn(e) ==
    <<<<Def("y", Num(1)),
        App(Lam(<<"y", "q">>, Begin(<<Eval(e), Id("y")>>)), <<Num(5), Quote(SetB("y", Num(8)))>>)>>,
      <<Id("y")>>>>
Evals == {Scenario("eval", [c |-> c], EvalIn(c.e)) : c \in EvalCases}

\* C28: an application of 0..MaxOperands arguments, the operator binding c to
\* 0 and having the value of the native - or of a closure that binds b to c
\* and subtracts its parameters; argument j binds c to j and has a number for
\* value, or fails on the unbound u; at top level and in a call's frame
ArgValue(j) == IF j = 1 THEN 20 ELSE j
Argument(j, kind) ==
    IF kind = "fail" THEN App(Id("u"), <<Num(j)>>)
    ELSE Begin(<<Def("c", Num(j)), Num(ArgValue(j))>>)
Parameter(j) == <<"p", "q", "r", "s", "t">>[j]
ClosureBody(n) ==
    Begin(<<Def("b", Id("c")), App(Id("-"), [j \in 1..n |-> Id(Parameter(j))])>>)
Operator(fn, n) ==
    Begin(<<Def("c", Num(0)),
            IF fn = "native" THEN Id("-")
            ELSE Lam([j \in 1..n |-> Parameter(j)], ClosureBody(n))>>)
ArgKindSeqs == UNION {[1..n -> {"value", "fail"}] : n \in 0..MaxOperands}
Applications ==
    {Scenario("apply", [fn |-> fn, ks |-> ks, at |-> at],
              LET form == App(Operator(fn, Len(ks)), [j \in 1..Len(ks) |-> Argument(j, ks[j])])
              IN  <<<<IF at = "global" THEN form ELSE InFrame(form)>>>>) :
        fn \in {"native", "closure"}, ks \in ArgKindSeqs, at \in Places}

\* C29: for every special form, a form of that name and then the name as a
\* bare atom, the name being unbound, bound in the global frame, or bound in
\* the frame of the call the form stands in, to a number or to the native +
SampleForm(f) ==
    CASE f = "quote" -> Quote(Id("a"))
      [] f = "if" -> If(Bool(TRUE), Num(1), Num(2))
      [] f = "define" -> Def("d", Num(1))
      [] f \in {"lambda", "λ"} -> Form(f, <<ListVal(<<>>), Num(1)>>)
      [] f = "eval" -> Eval(Num(1))
      [] f = "set!" -> SetB("-", Num(1))
      [] f = "let" -> Let1("x", Num(1), Id("x"))
      [] f \in {"begin", "and", "or"} -> Form(f, <<Num(1)>>)
Bindings == {"unbound", "global", "frame"}
DispatchIn(f, at, v) ==
    CASE at = "unbound" -> <<<<SampleForm(f)>>, <<Id(f)>>>>
      [] at = "global" -> <<<<Def(f, v), SampleForm(f)>>, <<Id(f)>>>>
      [] at = "frame" -> <<<<Num(0), App(Lam(<<f>>, SampleForm(f)), <<v>>)>>, <<Id(f)>>>>
Dispatches ==
    {Scenario("dispatch", [f |-> f, at |-> at, v |-> v], DispatchIn(f, at, v)) :
        f \in SpecialForms, at \in Bindings, v \in {Num(9), Id("+")}}

\* C30: (set! target e) where target is not an identifier, at top level or in
\* the body of a call; e is a literal, a define, a set! of a bound name, or an
\* unbound identifier
Targets == {Num(1), Bool(TRUE), Str("c"), ListVal(<<>>), ListVal(<<Id("c")>>), Quote(Id("c"))}
SetTargetOperands == {Num(3), Def("c", Num(3)), SetB("+", Num(3)), Id("zz")}
SetTargetIn(where, target, operand) ==
    LET form == Form("set!", <<target, operand>>)
    IN  IF where = "global" THEN <<<<form>>, <<Id("c")>>, <<Id("+")>>>>
        ELSE <<<<App(Lam(<<>>, form), <<>>)>>, <<Id("c")>>, <<Id("+")>>>>
SetTargets ==
    {Scenario("settarget", [where |-> w, target |-> t, operand |-> o], SetTargetIn(w, t, o)) :
        w \in {"global", "frame"}, t \in Targets, o \in SetTargetOperands}

\* C32: (define c e) where e fails, c being unbound or bound to 1 in the
\* current frame, at top level or in the body of a call; e fails at once, or
\* after it has assigned or defined c itself
FailingValues ==
    {Id("zz"), App(Num(1), <<>>), Form("if", <<>>),
     Begin(<<SetB("c", Num(2)), Id("zz")>>), Begin(<<Def("c", Num(2)), Id("zz")>>)}
DefineFailIn(where, was, failing) ==
    LET form == Def("c", failing)
    IN  CASE where = "global" /\ was = "absent" -> <<<<form>>, <<Id("c")>>>>
          [] where = "global" /\ was = "bound" -> <<<<Def("c", Num(1)), form>>, <<Id("c")>>>>
          [] where = "frame" /\ was = "absent" ->
                <<<<App(Lam(<<>>, form), <<>>)>>, <<Id("c")>>>>
          [] where = "frame" /\ was = "bound" ->
                <<<<App(Lam(<<"c">>, form), <<Num(1)>>)>>, <<Id("c")>>>>
DefineFails ==
    {Scenario("definefail", [where |-> w, was |-> b, failing |-> f], DefineFailIn(w, b, f)) :
        w \in {"global", "frame"}, b \in {"absent", "bound"}, f \in FailingValues}

Scenarios ==
    TailLoops \cup NonTailLoops \cup DefSets \cup SetUnbounds \cup Defines \cup Sets
    \cup Ifs \cup WrongArities \cup AndOrs \cup RoundTrips \cup Quotes \cup Lexicals
    \cup ClosureArities \cup Lets \cup BadLets \cup DefShorts \cup BadDefs
    \cup Begins \cup Batches \cup Failures \cup BadApplications \cup Evals
    \cup Applications \cup Dispatches \cup SetTargets \cup DefineFails

\* the inputs of a scenario with (eval (quote e)) in the place of e: of the
\* expression e of a round-trip scenario, of every top-level form otherwise
Wrap(e) == Eval(Quote(e))
Wrapped(sc) ==
    IF sc.id = "roundtrip" THEN RoundTripIn(Wrap(sc.p.e))
    ELSE [c \in 1..Len(sc.calls) |-> [j \in 1..Len(sc.calls[c]) |-> Wrap(sc.calls[c][j])]]

\* does the expression hold a set! form
RECURSIVE UsesSet(_)
UsesSet(x) == IsList(x) /\ \E j \in 1..Len(x.l) : IsNamed(x.l[j], "set!") \/ UsesSet(x.l[j])

-----------------------------------------------------------------------------
(* The specification *)

\* Evaluator::new()
Init ==
    /\ scenario \in Scenarios
    /\ script = scenario.calls
    /\ parsed = <<>> /\ k = 1 /\ results = <<>>
    /\ status = "idle" /\ outcomes = <<>>
    /\ stack = <<>> /\ ret = None
    /\ heap = <<default_env>>
    /\ log = <<>>
    /\ setReturns \in
            IF \E c \in 1..Len(scenario.calls) : \E j \in 1..Len(scenario.calls[c]) :
                    UsesSet(scenario.calls[c][j])
            THEN {"old", "new", "void"} ELSE {"old"}
    /\ session = 1
    /\ prev = None
    /\ ParserInit
    /\ StreamInit

Next ==
    \/ parse_and_eval
    \/ eval
    \/ evaluate
    \/ eval_if
    \/ eval_define
    \/ eval_make_lambda
    \/ eval_eval_expr
    \/ eval_set
    \/ eval_let
    \/ eval_begin
    \/ eval_and
    \/ eval_or
    \/ eval_func
    \/ eval_lambda

Spec == Init /\ [][Next]_vars

Finished == status = "idle" /\ script = <<>>

\* a second Evaluator::new(), given the inputs of the first with every
\* expression e as (eval (quote e)); what the first returned is kept in prev
new ==
    /\ session = 1 /\ Finished
    /\ session' = 2
    /\ prev' = [outcomes |-> outcomes, heap |-> heap]
    /\ script' = Wrapped(scenario)
    /\ parsed' = <<>> /\ k' = 1 /\ results' = <<>>
    /\ status' = "idle" /\ outcomes' = <<>>
    /\ stack' = <<>> /\ ret' = None
    /\ heap' = <<default_env>>
    /\ log' = <<>>
    /\ UNCHANGED <<scenario, setReturns, ParserVars, StreamVars>>

NextRoundTrip == Next \/ new

SpecRoundTrip == Init /\ [][NextRoundTrip]_vars

\* a second Evaluator::new(), given the inputs of the first with the let form
\* written as the application of a lambda, the define of a function as the
\* define of a lambda; what the first returned is kept in prev
desugared ==
    /\ session = 1 /\ Finished
    /\ "plain" \in DOMAIN scenario.p
    /\ session' = 3
    /\ prev' = [outcomes |-> outcomes, heap |-> heap]
    /\ script' = scenario.p.plain
    /\ parsed' = <<>> /\ k' = 1 /\ results' = <<>>
    /\ status' = "idle" /\ outcomes' = <<>>
    /\ stack' = <<>> /\ ret' = None
    /\ heap' = <<default_env>>
    /\ log' = <<>>
    /\ UNCHANGED <<scenario, setReturns, ParserVars, StreamVars>>

NextDesugar == Next \/ desugared

SpecDesugar == Init /\ [][NextDesugar]_vars

\* the token sequences given to the parser: every sequence of up to MaxTokens
\* tokens, some longer ones, and pairs of inputs of one session
Tokens ==
    {OpenParen, CloseParen, QuoteTick, Identifier("a"), Identifier("quote"), NumberLiteral(1)}
TokenSeqs == UNION {[1..n -> Tokens] : n \in 0..MaxTokens}
A == Identifier("a")
One == NumberLiteral(1)
LongInputs ==
    {<<OpenParen, A, OpenParen, A, OpenParen, One, CloseParen, CloseParen,
       OpenParen, CloseParen, CloseParen, A>>,
     <<QuoteTick, OpenParen, A, QuoteTick, OpenParen, One, A, CloseParen, CloseParen, A>>,
     <<OpenParen, OpenParen, OpenParen, OpenParen, OpenParen, A, CloseParen, CloseParen,
       CloseParen, CloseParen, CloseParen>>,
     <<A, OpenParen, A, CloseParen, OpenParen, OpenParen, OpenParen, OpenParen, A>>,
     <<A, OpenParen, A, CloseParen, OpenParen, A, QuoteTick, CloseParen, CloseParen>>,
     <<OpenParen, A, CloseParen, QuoteTick, QuoteTick, OpenParen, QuoteTick, A, CloseParen,
       CloseParen, A>>,
     <<OpenParen, QuoteTick, OpenParen, A, CloseParen, One, CloseParen, QuoteTick, A>>,
     <<BadToken>>, <<OpenParen, A, BadToken, CloseParen>>, <<A, QuoteTick, BadToken>>,
     <<OpenParen, StringLiteral("a"), BooleanLiteral(TRUE), One, CloseParen>>,
     <<StringLiteral("quote"), QuoteTick, StringLiteral("a"), OpenParen, A,
       StringLiteral("a"), CloseParen>>}
Sessions ==
    {<<x, y>> : x, y \in {<<QuoteTick, A>>, <<OpenParen, Identifier("quote"), A, CloseParen>>,
                         <<OpenParen, QuoteTick, One, QuoteTick, A, CloseParen>>,
                         <<A, CloseParen>>,
                         <<OpenParen, StringLiteral("a"), BooleanLiteral(TRUE), One,
                           QuoteTick, One, CloseParen, StringLiteral("quote")>>}}
TokenInputs ==
    {Scenario("parse", [n |-> 1], <<toks>>) : toks \in TokenSeqs \cup LongInputs}
    \cup {Scenario("parse", [n |-> 2], calls) : calls \in Sessions}

\* Evaluator::new(), its inputs given to the parser
InitParse ==
    /\ scenario \in TokenInputs
    /\ script = scenario.calls
    /\ parsed = <<>> /\ k = 1 /\ results = <<>>
    /\ status = "idle" /\ outcomes = <<>>
    /\ stack = <<>> /\ ret = None
    /\ heap = <<default_env>>
    /\ log = <<>>
    /\ setReturns = "old"
    /\ session = 1
    /\ prev = None
    /\ ParserInit
    /\ StreamInit

NextParse ==
    \/ parse
    \/ next
    \/ read_from_tokens

SpecParse == InitParse /\ [][NextParse]_vars

\* the parser, and the Evaluator dropped between two inputs or after the last
NextIntern ==
    \/ parse
    \/ next
    \/ read_from_tokens
    \/ drop

SpecIntern == InitParse /\ [][NextIntern]_vars

\* the inputs given to parse_and_eval as text: up to two well-formed forms,
\* then nothing or the start of a form that fails to parse, and a second input
\* that reads a and b
B == Identifier("b")
GoodForms ==
    {<<OpenParen, Identifier("define"), A, One, CloseParen>>,
     <<OpenParen, Identifier("define"), B, One, CloseParen>>,
     <<OpenParen, Identifier("+"), One, One, CloseParen>>,
     <<A>>, <<One>>}
BadEnds ==
    {<<>>, <<OpenParen>>, <<CloseParen>>, <<OpenParen, B>>, <<QuoteTick>>, <<BadToken>>,
     <<OpenParen, Identifier("define"), B, One, BadToken>>,
     <<OpenParen, B, CloseParen, CloseParen, OpenParen, Identifier("define"), B, One,
       CloseParen>>}
GoodSeqs == UNION {[1..n -> GoodForms] : n \in 0..2}
RECURSIVE Concat(_)
Concat(seqs) == IF seqs = <<>> THEN <<>> ELSE Head(seqs) \o Concat(Tail(seqs))
TextInputs ==
    {Scenario("text", [good |-> g, bad |-> b],
              <<Concat(g) \o b, <<OpenParen, Identifier("+"), A, B, CloseParen>>>>) :
        g \in GoodSeqs, b \in BadEnds}

\* Evaluator::new(), its inputs given to parse_and_eval as text
InitParseEval ==
    /\ scenario \in TextInputs
    /\ script = scenario.calls
    /\ parsed = <<>> /\ k = 1 /\ results = <<>>
    /\ status = "idle" /\ outcomes = <<>>
    /\ stack = <<>> /\ ret = None
    /\ heap = <<default_env>>
    /\ log = <<>>
    /\ setReturns = "old"
    /\ session = 1
    /\ prev = None
    /\ ParserInit
    /\ StreamInit

NextParseEval ==
    \/ parse_and_eval_expr_str
    \/ next
    \/ read_from_tokens
    \/ eval
    \/ evaluate
    \/ eval_define
    \/ eval_func

SpecParseEval == InitParseEval /\ [][NextParseEval]_vars

\* the streams given to LazyStreamIter::new: the empty stream, (integers n),
\* and a first element consed on the thunk of up to two others, with every
\* end: the empty stream, a thunk that fails, that returns a number, that is a
\* number, that is the native +
Elements == {1, 2}
Ends == {"empty", "fails", "value", "number", "native"}
ElementSeqs == UNION {[1..n -> Elements] : n \in 0..2}
StreamInput(s, elems, end) ==
    Scenario("stream", [stream |-> s, elems |-> elems, end |-> end], <<>>)
StreamInputs ==
    {StreamInput(new_empty_stream, <<>>, "empty")}
    \cup {StreamInput(integers(n), <<n>>, "integers") : n \in 0..1}
    \cup {StreamInput(stream_cons(NumV(x), ThunkOf(l, end)), <<x>> \o l, end) :
            x \in Elements, l \in ElementSeqs, end \in Ends}

\* LazyStreamIter::new(stream, ..)
InitStream ==
    /\ scenario \in StreamInputs
    /\ script = <<>>
    /\ parsed = <<>> /\ k = 1 /\ results = <<>>
    /\ status = "idle" /\ outcomes = <<>>
    /\ stack = <<>> /\ ret = None
    /\ heap = <<default_env>>
    /\ log = <<>>
    /\ setReturns = "old"
    /\ session = 1
    /\ prev = None
    /\ ParserInit
    /\ stream = scenario.p.stream /\ items = <<>>

NextStream == LazyStreamIter_next

SpecStream == InitStream /\ [][NextStream]_vars

-----------------------------------------------------------------------------
(* C1 *)

\* C1: while a self-tail-recursive function runs (the tail call being the else
\* or then branch of if, the last form of begin, the body of let or the whole
\* lambda body), at most 4 activations of evaluate are live, whatever the number
\* of iterations (the top-level form and the nesting of the test or argument
\* expression being evaluated); and the terminating loops return 0.
C1_TailCallsBounded ==
    scenario.id = "tail" =>
        /\ Len(stack) <= 4
        /\ (Finished /\ scenario.p.way # "body") => outcomes = <<Ok(<<Void, NumV(0)>>)>>

\* the longest count-down has run to its end in the one activation
C1_Witness ==
    /\ scenario.id = "tail" /\ scenario.p.way = "let" /\ scenario.p.n = MaxN
    /\ Finished
    /\ Len(heap) = 1 + 2 * MaxN + 1

\* the non-tail count-down nests activations in proportion to n
C1_NonTailGrows ==
    /\ scenario.id = "nontail"
    /\ Len(stack) >= scenario.p.n + 3
    /\ scenario.p.n = MaxN

-----------------------------------------------------------------------------
(* C2 - C5: define and set! *)

Last(q) == q[Len(q)]
Frames(h) == 1..Len(h)

\* the nearest frame on the chain from env to the root that binds name, if any
BindsSomewhere(h, env, name) ==
    \E j \in 1..Len(Chain(h, env)) : Binds(h, Chain(h, env)[j], name)
Nearest(h, env, name) ==
    LET ch == Chain(h, env)
    IN  ch[CHOOSE j \in 1..Len(ch) :
               Binds(h, ch[j], name) /\ \A i \in 1..(j - 1) : ~Binds(h, ch[i], name)]

\* eval_set has the value of its operand and is about to assign to an identifier
AtSet == In("eval_set") /\ ret # None /\ IsOk(ret) /\ IsIdentifier(Top.args[1])
\* eval_define has the value to bind
AtDefine == In("eval_define") /\ ret # None /\ IsOk(ret)
\* the name a define form binds
DefinedName(form) ==
    IF IsIdentifier(form.l[2]) THEN form.l[2].t.s ELSE form.l[2].l[1].t.s

\* C2: after (define x v) and (set! x v2), evaluated at top level or in the frame
\* of a call, the identifier x evaluates to the value of v2, for every x, v, v2.
C2_DefineSetLookup ==
    (scenario.id = "defset" /\ Finished) =>
        /\ IsOk(outcomes[1])
        /\ Last(outcomes[1].v) = LitVal(scenario.p.v2)

\* x is a name the global frame binds too, the three forms ran in a call's frame
C2_Witness ==
    /\ scenario.id = "defset" /\ Finished
    /\ scenario.p = [x |-> "+", v |-> Num(1), v2 |-> Str("s"), at |-> "frame"]
    /\ outcomes = <<Ok(<<StringV("s")>>)>>
    /\ heap[GlobalEnv].bindings["+"] = FuncV("+")

\* C3: a set! of a name that no frame from the current one to the root binds
\* (when the assignment is made, its operand evaluated) fails with the
\* unbound-identifier failure and leaves every frame as it was; afterwards no
\* frame binds the name and looking it up fails.
C3_SetUnboundFails ==
    /\ [][(AtSet /\ ~BindsSomewhere(heap, Top.env, Top.args[1].t.s)) =>
            (ret' = Err("FreeIdentifier") /\ heap' = heap)]_vars
    /\ [](scenario.id = "setunbound" /\ outcomes # <<>> =>
            /\ \A j \in 1..Len(outcomes) : outcomes[j] = Err("FreeIdentifier")
            /\ \A j \in Frames(heap) : ~Binds(heap, j, scenario.p.x))

\* the failing set! was two frames below the global one, its operand had bound c
C3_Witness ==
    /\ scenario.id = "setunbound" /\ Finished
    /\ scenario.p.at = "frame2" /\ scenario.p.x = "a" /\ scenario.p.e \notin Literals
    /\ Len(heap) = 3 /\ Binds(heap, 3, "c") /\ ~Binds(heap, 3, "a")
    /\ outcomes = <<Err("FreeIdentifier"), Err("FreeIdentifier")>>

\* C4: a define whose value expression has evaluated returns Void and binds the
\* name to the value in the frame the form is evaluated in, whether or not that
\* frame or a parent frame binds the name already; no other binding of any frame
\* changes and no frame is made.
C4_DefineCurrentFrameOnly ==
    /\ [][AtDefine =>
            LET x == DefinedName(Top.expr)
                env == Top.env
            IN  /\ ret' = Ok(Void)
                /\ Len(heap') = Len(heap)
                /\ \A j \in Frames(heap) : j # env => heap'[j] = heap[j]
                /\ heap'[env].parent = heap[env].parent
                /\ DOMAIN heap'[env].bindings = DOMAIN heap[env].bindings \cup {x}
                /\ heap'[env].bindings[x] = ret.v
                /\ \A n \in DOMAIN heap[env].bindings :
                        n # x => heap'[env].bindings[n] = heap[env].bindings[n]]_vars
    /\ [](scenario.id = "define" /\ Finished =>
            outcomes = <<Ok(IF scenario.p.at = "global"
                            THEN <<Void, Void, LitVal(scenario.p.v2)>>
                            ELSE <<Void, LitVal(scenario.p.v2), LitVal(scenario.p.v)>>)>>)

\* x was bound in the global frame and defined again in a child frame
C4_Witness ==
    /\ scenario.id = "define" /\ Finished
    /\ scenario.p = [x |-> "a", v |-> Num(1), v2 |-> Num(2), at |-> "frame"]
    /\ Len(heap) = 2
    /\ heap[1].bindings["a"] = NumV(1) /\ heap[2].bindings["a"] = NumV(2)
    /\ outcomes = <<Ok(<<Void, NumV(2), NumV(1)>>)>>

\* C5: a set! of a name bound on the chain replaces its value in the nearest
\* frame that binds it and changes nothing else: the current frame gets no
\* binding, a farther frame that binds the name keeps its value; a set! in a
\* closure body on a variable of the defining frame is seen by later calls.
C5_SetNearestFrameOnly ==
    /\ [][(AtSet /\ BindsSomewhere(heap, Top.env, Top.args[1].t.s)) =>
            LET x == Top.args[1].t.s
                d == Nearest(heap, Top.env, x)
            IN  /\ IsOk(ret')
                /\ heap' = [heap EXCEPT ![d].bindings[x] = ret.v]]_vars
    /\ [](scenario.id = "counter" /\ Finished =>
            /\ Len(outcomes) = 2 /\ IsOk(outcomes[1]) /\ IsOk(outcomes[2])
            /\ outcomes[1].v[5] = NumV(3)
            /\ outcomes[2].v[2] = NumV(4))
    /\ [](scenario.id = "setshadow" /\ Finished =>
            /\ outcomes = <<Ok(<<Void, LitVal(scenario.p.v2), LitVal(scenario.p.v)>>)>>
            /\ Len(heap) = 3
            /\ heap[1].bindings["x"] = LitVal(scenario.p.v)
            /\ heap[2].bindings = [n \in {"x"} |-> LitVal(scenario.p.v2)]
            /\ DOMAIN heap[3].bindings = {})

\* the set! ran in a frame without x, below a frame and the global frame with x
C5_Witness ==
    /\ scenario.id = "setshadow" /\ Finished
    /\ scenario.p = [v |-> Num(1), v2 |-> Str("s"), v3 |-> Bool(FALSE)]
    /\ heap[1].bindings["x"] = NumV(1)
    /\ heap[2].bindings["x"] = StringV("s")
    /\ ~Binds(heap, 3, "x")

-----------------------------------------------------------------------------
(* C6 - C9: if, operand counts, and, or *)

\* how often, and where first, the loop of evaluate dispatched on the expression
Count(x) == Cardinality({j \in 1..Len(log) : log[j].expr = x})
Pos(x) == CHOOSE j \in 1..Len(log) : log[j].expr = x /\ \A i \in 1..(j - 1) : log[i].expr # x

\* C6: (if test then else) evaluates test once and then exactly one branch:
\* then when the value of test is the boolean true, else for every other value
\* (false, numbers, strings, symbols, lists, functions, Void); the other branch
\* is not evaluated and none of its effects occurs.  The step of eval_if that
\* picks the branch changes no environment and evaluates nothing itself.
C6_IfOneBranch ==
    /\ [][(In("eval_if") /\ ret # None /\ IsOk(ret)) =>
            /\ stack' = SetTop(Frame(IF ret.v = BoolV(TRUE) THEN Top.expr.l[3]
                                     ELSE Top.expr.l[4], Top.env))
            /\ heap' = heap /\ log' = log]_vars
    /\ [](scenario.id = "if" /\ Finished =>
            LET truth == scenario.p.truth IN
            /\ outcomes = <<Ok(<<IF truth THEN NumV(1) ELSE NumV(2)>>)>>
            /\ Count(IfTest(scenario.p.c)) = 1
            /\ Count(IfThen) = (IF truth THEN 1 ELSE 0)
            /\ Count(IfElse) = (IF truth THEN 0 ELSE 1)
            /\ Binds(heap, GlobalEnv, "c")
            /\ Binds(heap, GlobalEnv, "t") = truth
            /\ Binds(heap, GlobalEnv, "e") = ~truth)

\* the test was a number: the else branch ran, the then branch did not
C6_Witness ==
    /\ scenario.id = "if" /\ Finished /\ scenario.p.c = Num(1)
    /\ outcomes = <<Ok(<<NumV(2)>>)>>
    /\ Count(IfElse) = 1 /\ Count(IfThen) = 0
    /\ ~Binds(heap, GlobalEnv, "t")

\* C7: quote, if, define, lambda, λ, eval, set!, let and begin with a wrong
\* number of operands (quote, eval: not 1; define, lambda, λ, set!, let: not 2;
\* if: not 3; begin: 0) fail with ArityMismatch; no operand is evaluated and no
\* frame is changed at any moment of the evaluation.
C7_ArityCheckedFirst ==
    scenario.id = "arity" =>
        /\ Count(Operand) = 0
        /\ heap[GlobalEnv] = default_env
        /\ \A j \in Frames(heap) : j # GlobalEnv => DOMAIN heap[j].bindings = {}
        /\ Finished =>
            /\ outcomes = <<Err("ArityMismatch")>>
            /\ Len(log) = (IF scenario.p.at = "global" THEN 1 ELSE 3)
            /\ Last(log).expr = Form(scenario.p.form, [j \in 1..scenario.p.n |-> Operand])

\* an if with four operands, each a define, failed in the frame of a call
C7_Witness ==
    /\ scenario.id = "arity" /\ Finished
    /\ scenario.p = [form |-> "if", n |-> 4, at |-> "frame"]
    /\ outcomes = <<Err("ArityMismatch")>>
    /\ Len(heap) = 2

\* the operands of (and ..) / (or ..) that are evaluated: up to the first one
\* with the stopping value, all of them if there is none
StopAt(vs, stop) ==
    IF \E j \in 1..Len(vs) : vs[j] = stop
    THEN CHOOSE j \in 1..Len(vs) : vs[j] = stop /\ \A i \in 1..(j - 1) : vs[i] # stop
    ELSE Len(vs)
EvaluatedInOrder(vs, last) ==
    /\ \A j \in 1..Len(vs) : Count(OperandAt(j, vs[j])) = (IF j <= last THEN 1 ELSE 0)
    /\ \A i, j \in 1..last : i < j => Pos(OperandAt(i, vs[i])) < Pos(OperandAt(j, vs[j]))
    /\ IF last = 0 THEN ~Binds(heap, GlobalEnv, "c")
       ELSE heap[GlobalEnv].bindings["c"] = NumV(last)

\* C8: (and e1..en) evaluates its operands from the left, each once, up to the
\* first whose value is the boolean false, and returns false there; the later
\* operands are not evaluated and have no effect.  Without a false operand
\* (n = 0, or values that are true or not boolean) all are evaluated and the
\* result is the boolean true.
C8_AndShortCircuit ==
    (scenario.id = "and" /\ Finished) =>
        LET vs == scenario.p.vs IN
        /\ outcomes = <<Ok(<<BoolV(\A j \in 1..Len(vs) : vs[j] # Bool(FALSE))>>)>>
        /\ EvaluatedInOrder(vs, StopAt(vs, Bool(FALSE)))

\* (and 1 #f #t): two operands evaluated, the third not, the result false
C8_Witness ==
    /\ scenario.id = "and" /\ Finished
    /\ scenario.p.vs = <<Num(1), Bool(FALSE), Bool(TRUE)>>
    /\ outcomes = <<Ok(<<BoolV(FALSE)>>)>>
    /\ heap[GlobalEnv].bindings["c"] = NumV(2)
    /\ Count(OperandAt(3, Bool(TRUE))) = 0

\* C9: (or e1..en) evaluates its operands from the left, each once, up to the
\* first whose value is the boolean true, and returns true there; the later
\* operands are not evaluated.  Without a true operand (n = 0, or values that
\* are false or not boolean, as in (or 1 1)) all are evaluated and the result
\* is the boolean false.
C9_OrShortCircuit ==
    (scenario.id = "or" /\ Finished) =>
        LET vs == scenario.p.vs IN
        /\ outcomes = <<Ok(<<BoolV(\E j \in 1..Len(vs) : vs[j] = Bool(TRUE))>>)>>
        /\ EvaluatedInOrder(vs, StopAt(vs, Bool(TRUE)))

\* (or 1 #t #f): two operands evaluated, the third not, the result true
C9_Witness ==
    /\ scenario.id = "or" /\ Finished
    /\ scenario.p.vs = <<Num(1), Bool(TRUE), Bool(FALSE)>>
    /\ outcomes = <<Ok(<<BoolV(TRUE)>>)>>
    /\ heap[GlobalEnv].bindings["c"] = NumV(2)
    /\ Count(OperandAt(3, Bool(FALSE))) = 0

-----------------------------------------------------------------------------
(* C10: eval of a quoted expression *)

\* C10: (eval (quote e)) gives the outcome (value or failure) and the
\* environment frames that e gives: for every top-level form of every scenario,
\* evaluated in the global frame, and for e evaluated in the frame of a call.
C10_EvalQuoteRoundTrip ==
    (session = 2 /\ Finished) =>
        /\ outcomes = prev.outcomes
        /\ heap = prev.heap

\* (eval (quote (set! y 2))) in the frame of a call assigned to the call's y
C10_Witness ==
    /\ session = 2 /\ Finished
    /\ scenario.id = "roundtrip" /\ scenario.p.e = SetB("y", Num(2))
    /\ Count(Wrap(SetB("y", Num(2)))) = 1
    /\ heap[2].bindings["y"] = NumV(2)
    /\ prev.heap = heap /\ IsOk(outcomes[1])

-----------------------------------------------------------------------------
(* C11: quote *)

\* the expressions inside x, x included
RECURSIVE Parts(_)
Parts(x) == {x} \cup (IF IsList(x) THEN UNION {Parts(x.l[j]) : j \in 1..Len(x.l)} ELSE {})

\* the loop of evaluate is at a quote form with one operand
AtQuote ==
    /\ In("loop") /\ IsList(Top.expr) /\ Top.expr.l # <<>>
    /\ IsNamed(Top.expr.l[1], "quote") /\ Len(Top.expr.l) = 2

\* C11: (quote x) returns x converted to a value in one step of its activation,
\* which calls no evaluation and changes no frame; no expression inside x is
\* ever dispatched on, so that unbound identifiers in x fail nothing and the
\* define, set! and call forms in x bind, assign and call nothing.
C11_QuoteNoEvaluation ==
    /\ [][AtQuote =>
            /\ ret' = ValFromExpr(Top.expr.l[2])
            /\ stack' = SubSeq(stack, 1, Len(stack) - 1)
            /\ heap' = heap
            /\ log' = Append(log, [expr |-> Top.expr, env |-> Top.env])]_vars
    /\ [](scenario.id = "quote" =>
            /\ \A y \in Parts(scenario.p.x) : Count(y) = 0
            /\ heap[GlobalEnv] = default_env
            /\ \A j \in Frames(heap) : j # GlobalEnv => DOMAIN heap[j].bindings = {}
            /\ Finished =>
                /\ IsOk(outcomes[1])
                /\ outcomes = <<Ok(<<ValFromExpr(scenario.p.x).v>>)>>)

\* (quote (if u (define a 1) (define b 2))) in a call's frame gave the list of
\* symbols and numbers; u was not looked up, a and b are not bound
C11_Witness ==
    /\ scenario.id = "quote" /\ Finished /\ scenario.p.at = "frame"
    /\ scenario.p.x = If(Id("u"), Def("a", Num(1)), Def("b", Num(2)))
    /\ outcomes = <<Ok(<<ListV(<<SymbolV("if"), SymbolV("u"),
                                ListV(<<SymbolV("define"), SymbolV("a"), NumV(1)>>),
                                ListV(<<SymbolV("define"), SymbolV("b"), NumV(2)>>)>>)>>)>>
    /\ Len(heap) = 2 /\ ~Binds(heap, 2, "a") /\ ~Binds(heap, GlobalEnv, "a")
    /\ Len(log) = 3

-----------------------------------------------------------------------------
(* C12, C13: closure calls *)

\* eval_lambda has the values of all the arguments of the call
AtBind == In("eval_lambda") /\ Top.i = Len(Top.args) /\ (ret = None \/ IsOk(ret))
ArgsNow == IF ret = None THEN Top.acc ELSE Append(Top.acc, ret.v)
\* the frame that binds the parameters to the values, position by position
Positional(parent, params, values) ==
    EnvFrame(parent, [n \in {params[j] : j \in 1..Len(params)} |->
                        values[CHOOSE j \in 1..Len(params) : params[j] = n]])

\* C12: a closure call evaluates each argument in the caller's environment; with
\* as many values as parameters it adds one frame to the heap, whose parent is
\* the environment the closure captured and whose bindings are the parameters,
\* position by position; every frame there was is left as it was, and the loop
\* goes on with the body in the new frame.  So a closure sees the y of the frame
\* it was made in, not the y of its caller, also after the call that made that
\* frame has returned, and a later call of the same closure gets another frame.
C12_LexicalScoping ==
    /\ [][(In("eval_lambda") /\ Len(stack') = Len(stack) + 1) =>
            /\ Last(stack').env = Top.env
            /\ Last(stack').expr = Top.args[Top.i + 1]
            /\ heap' = heap]_vars
    /\ [][(AtBind /\ Len(ArgsNow) = Len(Top.fv.params_exp)) =>
            /\ heap' = Append(heap, Positional(Top.fv.parent_env, Top.fv.params_exp, ArgsNow))
            /\ stack' = SetTop(Frame(Top.fv.body_exp, Len(heap) + 1))]_vars
    /\ [](scenario.id = "lexical" /\ Finished =>
            LET v1 == LitVal(scenario.p.v1)
                v2 == LitVal(scenario.p.v2)
            IN  /\ outcomes = <<Ok(<<Void, Void, Void, v1, Void, Void, v2, Void,
                                     v2, v2, v1, v1>>)>>
                /\ Len(heap) = 10
                /\ heap[GlobalEnv].bindings["y"] = v1
                /\ heap[2] = EnvFrame(GlobalEnv, [n \in {"y"} |-> v2])
                /\ heap[3] = EnvFrame(GlobalEnv, <<>>)
                /\ heap[4] = EnvFrame(GlobalEnv, [n \in {"y"} |-> v2])
                /\ heap[5] = EnvFrame(4, <<>>)
                /\ heap[7] = EnvFrame(GlobalEnv, [n \in {"a"} |-> v2])
                /\ heap[8] = EnvFrame(GlobalEnv, [n \in {"a", "b"} |->
                                                     IF n = "a" THEN v1 ELSE v2])
                /\ heap[9] = heap[2] /\ heap[10] = heap[3])

\* the global y is 1 and the callers' y is "s": f called from g gave 1, the
\* closure made by (mk "s") gave "s" from the frame of that call
C12_Witness ==
    /\ scenario.id = "lexical" /\ Finished
    /\ scenario.p = [v1 |-> Num(1), v2 |-> Str("s")]
    /\ outcomes[1].v[4] = NumV(1) /\ outcomes[1].v[7] = StringV("s")
    /\ heap[3].parent = GlobalEnv /\ heap[5].parent = 4
    /\ heap[GlobalEnv].bindings["k"] = LambdaV(<<>>, Id("y"), 4)

\* the frame a form placed at top level or in a call's frame is evaluated in
PlaceEnv(at) == IF at = "global" THEN GlobalEnv ELSE 2

\* C13: a closure call with a number of values different from the number of
\* parameters returns ArityMismatch at the step where the parameters would be
\* bound, when every argument has been evaluated, and changes no frame there;
\* the body is never dispatched on and binds nothing, while each argument has
\* been evaluated once, in order, and its binding of c is in the caller's frame.
C13_ClosureArityAfterArgs ==
    /\ [][(AtBind /\ Len(ArgsNow) # Len(Top.fv.params_exp)) =>
            /\ ret' = Err("ArityMismatch")
            /\ stack' = SubSeq(stack, 1, Len(stack) - 1)
            /\ heap' = heap]_vars
    /\ [](scenario.id = "closurearity" =>
            /\ Count(Body) = 0
            /\ \A j \in Frames(heap) : \A n \in {"b", "p", "q"} : ~Binds(heap, j, n)
            /\ Finished =>
                LET m == scenario.p.m
                    env == PlaceEnv(scenario.p.at)
                IN  /\ outcomes = <<Err("ArityMismatch")>>
                    /\ \A j \in 1..m : Count(ArgAt(j)) = 1
                    /\ \A i, j \in 1..m : i < j => Pos(ArgAt(i)) < Pos(ArgAt(j))
                    /\ IF m = 0 THEN ~Binds(heap, env, "c")
                       ELSE heap[env].bindings["c"] = NumV(m)
                    /\ Len(heap) = env)

\* a closure of one parameter, the value of f, was called with three arguments
\* in a call's frame: the three were evaluated, the body was not
C13_Witness ==
    /\ scenario.id = "closurearity" /\ Finished
    /\ scenario.p = [k |-> 1, m |-> 3, how |-> "named", at |-> "frame"]
    /\ outcomes = <<Err("ArityMismatch")>>
    /\ heap[2].bindings["c"] = NumV(3)
    /\ Count(ArgAt(3)) = 1 /\ Count(Body) = 0

-----------------------------------------------------------------------------
(* C14: let *)

\* eval_let is at a form of two operands
AtLet == In("eval_let") /\ Len(Top.args) = 2
\* the bindings operand is a list of lists of two
PairsOnly(bindings) ==
    IsList(bindings) /\ \A j \in 1..Len(bindings.l) :
                            IsList(bindings.l[j]) /\ Len(bindings.l[j].l) = 2

\* C14: a let form whose bindings are lists of two makes the loop go on, in the
\* same activation and environment and with no frame changed, with the
\* application ((lambda (n1..nk) body) v1..vk); a second evaluator given the
\* application in the place of the let form ends with the same outcomes and the
\* same frames.  The vi are evaluated in the enclosing frame (an init naming an
\* earlier nj sees the enclosing binding), the body runs in one new child frame
\* of it, and the enclosing frame keeps its binding of a and gets none of the
\* names.  Bindings that are not a list, or hold a binding that is not a list
\* of two, fail with BadSyntax before anything is evaluated.
C14_LetIsLambdaApplication ==
    /\ [][(AtLet /\ PairsOnly(Top.args[1])) =>
            LET bs == Top.args[1].l IN
            /\ stack' = SetTop(Frame(LetApp([j \in 1..Len(bs) |-> bs[j].l], Top.args[2]),
                                     Top.env))
            /\ heap' = heap /\ log' = log]_vars
    /\ [][(AtLet /\ ~PairsOnly(Top.args[1])) =>
            /\ ret' = Err("BadSyntax")
            /\ stack' = SubSeq(stack, 1, Len(stack) - 1)
            /\ heap' = heap /\ log' = log]_vars
    /\ [](scenario.id = "let" /\ Finished =>
            LET c == scenario.p.c
                e == PlaceEnv(scenario.p.at)
            IN  /\ session = 3 => (outcomes = prev.outcomes /\ heap = prev.heap)
                /\ outcomes = <<IF IsOk(c.want) THEN Ok(<<Void, c.want.v, NumV(1)>>)
                                ELSE c.want>>
                /\ heap[e].bindings["a"] = Enclosing(scenario.p.at)
                /\ heap[GlobalEnv].bindings["a"] = NumV(1)
                /\ \A n \in {"b", "d", "x", "y"} :
                        ~Binds(heap, e, n) /\ ~Binds(heap, GlobalEnv, n)
                /\ IF IsOk(c.child)
                   THEN Len(heap) = e + 1 /\ heap[e + 1] = EnvFrame(e, c.child.v)
                   ELSE Len(heap) = e)
    /\ [](scenario.id = "letbad" =>
            /\ Count(Def("d", Num(1))) = 0 /\ Count(Def("c", Num(1))) = 0
            /\ \A j \in Frames(heap) : \A n \in {"b", "c", "d"} : ~Binds(heap, j, n)
            /\ Finished => outcomes = <<Err("BadSyntax")>>)

\* the second evaluator has run ((lambda (a b) b) 5 a) in a call's frame where
\* a is 3, as the first ran (let ((a 5) (b a)) b): both gave 3
C14_Witness ==
    /\ scenario.id = "let" /\ Finished /\ session = 3
    /\ scenario.p.at = "frame"
    /\ scenario.p.c.bs = <<<<Id("a"), Num(5)>>, <<Id("b"), Id("a")>>>>
    /\ outcomes = <<Ok(<<Void, NumV(3), NumV(1)>>)>> /\ prev.outcomes = outcomes
    /\ heap[3] = EnvFrame(2, [n \in {"a", "b"} |-> IF n = "a" THEN NumV(5) ELSE NumV(3)])
    /\ Count(LetApp(scenario.p.c.bs, scenario.p.c.body)) = 1
    /\ Count(LetForm(scenario.p.c.bs, scenario.p.c.body)) = 0

-----------------------------------------------------------------------------
(* C15: define of a function *)

\* eval_define is at a form of two operands, the first a list, nothing
\* evaluated yet
AtDefineList == In("eval_define") /\ ret = None /\ Len(Top.args) = 2 /\ IsList(Top.args[1])
\* (lambda (p1..pk) body) for the list (name p1..pk)
LambdaOf(l, body) == ListVal(<<Id("lambda"), ListVal(SubSeq(l, 2, Len(l))), body>>)
\* the list starts with an identifier
Named(l) == l # <<>> /\ IsIdentifier(l[1])

\* C15: (define (name p1..pk) body) evaluates (lambda (p1..pk) body) in the
\* current environment and binds name to its value in the current frame: a
\* closure with those parameters, that body and the current environment, as
\* (define name (lambda (p1..pk) body)) does; a second evaluator given that
\* form ends with the same outcomes and frames.  A later call of name runs the
\* body, which may call name again.  With an empty list or a list that does
\* not start with an identifier in the name position the form fails with
\* TypeMismatch; nothing is evaluated and nothing bound.
C15_DefineShorthand ==
    /\ [][(AtDefineList /\ Named(Top.args[1].l)) =>
            /\ Len(stack') = Len(stack) + 1
            /\ Last(stack').expr = LambdaOf(Top.args[1].l, Top.args[2])
            /\ Last(stack').env = Top.env
            /\ heap' = heap]_vars
    /\ [][(AtDefineList /\ ~Named(Top.args[1].l)) =>
            /\ ret' = Err("TypeMismatch")
            /\ stack' = SubSeq(stack, 1, Len(stack) - 1)
            /\ heap' = heap /\ log' = log]_vars
    /\ [](scenario.id = "defshort" /\ Finished =>
            LET c == scenario.p.c
                e == PlaceEnv(scenario.p.at)
            IN  /\ session = 3 => (outcomes = prev.outcomes /\ heap = prev.heap)
                /\ outcomes = <<IF IsErr(c.want) THEN c.want
                                ELSE IF e = GlobalEnv THEN Ok(<<Void, c.want.v>>)
                                ELSE Ok(<<c.want.v>>)>>
                /\ IF IsOk(c.want)
                   THEN /\ heap[e].bindings[c.name] =
                               LambdaV([j \in 1..Len(c.params) |-> c.params[j].t.s], c.body, e)
                        /\ e # GlobalEnv =>
                               heap[GlobalEnv].bindings = default_env.bindings
                   ELSE \A j \in Frames(heap) : ~Binds(heap, j, c.name))
    /\ [](scenario.id = "defbad" =>
            /\ Count(Def("c", Num(1))) = 0
            /\ heap[GlobalEnv] = default_env
            /\ \A j \in Frames(heap) : j # GlobalEnv => DOMAIN heap[j].bindings = {}
            /\ Finished => outcomes = <<Err("TypeMismatch")>>)

\* (define (loop n) ..) in a call's frame bound loop there to a closure over
\* that frame, and (loop 2), which calls loop twice more, gave 2
C15_Witness ==
    /\ scenario.id = "defshort" /\ Finished /\ session = 3
    /\ scenario.p.at = "frame" /\ scenario.p.c.name = "loop"
    /\ outcomes = <<Ok(<<NumV(2)>>)>> /\ prev.outcomes = outcomes
    /\ heap[2].bindings["loop"].parent_env = 2
    /\ Len(heap) = 5 /\ heap[5].bindings["n"] = NumV(0)
    /\ ~Binds(heap, GlobalEnv, "loop")

-----------------------------------------------------------------------------
(* C16: begin *)

\* eval_begin goes on: no operand evaluated yet, or the last one gave a value
BeginGoesOn == In("eval_begin") /\ (ret = None \/ IsOk(ret))
\* the greatest position up to last of an operand of the kind, 0 if none
LastOf(ks, kind, last) ==
    IF \E j \in 1..last : ks[j] = kind
    THEN CHOOSE j \in 1..last : ks[j] = kind /\ \A i \in (j + 1)..last : ks[i] # kind
    ELSE 0

\* C16: (begin e1..en), n >= 1, evaluates e1..e(n-1) from the left by calls in
\* the current environment and then goes on with en in the same activation and
\* environment: the result is the outcome of en, the values of the others are
\* dropped and their bindings stay.  When an ei fails the form returns that
\* failure at once and no later ej is evaluated.
C16_BeginInOrder ==
    /\ [][(In("eval_begin") /\ ret # None /\ IsErr(ret)) =>
            /\ ret' = ret
            /\ stack' = SubSeq(stack, 1, Len(stack) - 1)
            /\ heap' = heap]_vars
    /\ [][(BeginGoesOn /\ Top.i + 1 < Len(Top.args)) =>
            /\ Len(stack') = Len(stack) + 1
            /\ Last(stack').expr = Top.expr.l[Top.i + 2]
            /\ Last(stack').env = Top.env
            /\ heap' = heap]_vars
    /\ [][(BeginGoesOn /\ Top.i + 1 = Len(Top.args)) =>
            /\ stack' = SetTop(Frame(Top.expr.l[Len(Top.expr.l)], Top.env))
            /\ heap' = heap]_vars
    /\ [](scenario.id = "begin" /\ Finished =>
            LET ks == scenario.p.ks
                n == Len(ks)
                e == PlaceEnv(scenario.p.at)
                last == StopAt(ks, "fail")
                bound == LastOf(ks, "def", last)
                E(j) == BeginOperand(j, ks[j])
            IN  /\ outcomes = <<IF ks[last] = "fail" THEN Err("FreeIdentifier")
                                ELSE IF ks[n] = "def" THEN Ok(<<Void>>)
                                ELSE Ok(<<NumV(n)>>)>>
                /\ \A j \in 1..n : Count(E(j)) = (IF j <= last THEN 1 ELSE 0)
                /\ \A i, j \in 1..last : i < j => Pos(E(i)) < Pos(E(j))
                /\ \A j \in 1..last : log[Pos(E(j))].env = e
                /\ IF bound = 0 THEN \A j \in Frames(heap) : ~Binds(heap, j, "c")
                   ELSE heap[e].bindings["c"] = NumV(bound))

\* (begin (define c 1) (u 2) (define c 3)) in a call's frame: the first bound
\* c, the second failed, the third was not evaluated
C16_Witness ==
    /\ scenario.id = "begin" /\ Finished /\ scenario.p.at = "frame"
    /\ scenario.p.ks = <<"def", "fail", "def">>
    /\ outcomes = <<Err("FreeIdentifier")>>
    /\ heap[2].bindings["c"] = NumV(1)
    /\ Count(Def("c", Num(3))) = 0 /\ Count(App(Id("u"), <<Num(2)>>)) = 1

-----------------------------------------------------------------------------
(* C17 - C20: the parser *)

\* open-parens less close-parens among the first i tokens
Depth(toks, i) ==
    Cardinality({j \in 1..i : toks[j] = OpenParen})
    - Cardinality({j \in 1..i : toks[j] = CloseParen})
\* token i is a close-paren with no list open, or right after a quote marker
StrayClose(toks, i) ==
    /\ toks[i] = CloseParen
    /\ Depth(toks, i - 1) = 0 \/ (i > 1 /\ toks[i - 1] = QuoteTick)
\* the first such token, 0 if there is none
FirstStray(toks) ==
    IF \E i \in 1..Len(toks) : StrayClose(toks, i)
    THEN CHOOSE i \in 1..Len(toks) :
            StrayClose(toks, i) /\ \A j \in 1..(i - 1) : ~StrayClose(toks, j)
    ELSE 0
\* the tokens end with a list open or right after a quote marker
Unfinished(toks) ==
    /\ FirstStray(toks) = 0
    /\ Depth(toks, Len(toks)) > 0 \/ (toks # <<>> /\ toks[Len(toks)] = QuoteTick)
Lexed(toks) == \A i \in 1..Len(toks) : toks[i] # BadToken
\* a sequence of complete expressions
Complete(toks) == Lexed(toks) /\ FirstStray(toks) = 0 /\ ~Unfinished(toks)
QuoteFree(toks) == \A i \in 1..Len(toks) : toks[i] # QuoteTick

\* a recursive-descent reader of a sequence of complete expressions: the
\* close-paren of the open-paren at i, the last token of the expression that
\* starts at i, that expression, and the expressions of the tokens i..j
Match(toks, i) ==
    CHOOSE j \in (i + 1)..Len(toks) :
        /\ Depth(toks, j) = Depth(toks, i) - 1
        /\ \A m \in (i + 1)..(j - 1) : Depth(toks, m) >= Depth(toks, i)
RECURSIVE ExprEnd(_, _)
ExprEnd(toks, i) ==
    IF toks[i] = QuoteTick THEN ExprEnd(toks, i + 1)
    ELSE IF toks[i] = OpenParen THEN Match(toks, i)
    ELSE i
RECURSIVE ReadExpr(_, _)
RECURSIVE ReadExprs(_, _, _)
ReadExpr(toks, i) ==
    IF toks[i] = QuoteTick THEN ListVal(<<Id("quote"), ReadExpr(toks, i + 1)>>)
    ELSE IF toks[i] = OpenParen THEN ListVal(ReadExprs(toks, i + 1, Match(toks, i) - 1))
    ELSE Atom(toks[i])
ReadExprs(toks, i, j) ==
    IF i > j THEN <<>>
    ELSE <<ReadExpr(toks, i)>> \o ReadExprs(toks, ExprEnd(toks, i) + 1, j)

\* the inputs the parser has been through, by position in the session
Parsed == 1..Len(outcomes)

\* C17: for a token sequence of balanced parentheses without quote marker the
\* parser returns the expressions the recursive-descent reader returns: an
\* Atom for a token at top level, a ListVal for a parenthesised group with its
\* children in token order and nested as the parentheses are, an empty
\* ListVal for (), no expression for no token.
C17_ParserMatchesReader ==
    status = "idle" =>
        \A c \in Parsed :
            LET toks == scenario.calls[c] IN
            (Complete(toks) /\ QuoteFree(toks)) =>
                /\ IsOk(outcomes[c])
                /\ Trees(rc, outcomes[c].v) = ReadExprs(toks, 1, Len(toks))

\* (a (a (1)) ()) a was read: a list of three with a list in a list and an
\* empty list, then an atom
C17_Witness ==
    /\ status = "idle" /\ Len(outcomes) = 1
    /\ scenario.calls[1] =
            <<OpenParen, A, OpenParen, A, OpenParen, One, CloseParen, CloseParen,
              OpenParen, CloseParen, CloseParen, A>>
    /\ IsOk(outcomes[1])
    /\ Trees(rc, outcomes[1].v) =
            <<ListVal(<<Id("a"), ListVal(<<Id("a"), ListVal(<<Num(1)>>)>>), ListVal(<<>>)>>),
              Id("a")>>

\* the input the parser is at
Input == scenario.calls[Len(outcomes) + 1]
\* Parser::next has handed the failure e to collect()
Yielded(e) == status = "parsing" /\ pstack = <<>> /\ pret = Err(e)
\* the longest sequence of complete expressions the tokens before i start with
LastComplete(toks, i) ==
    CHOOSE m \in 0..(i - 1) :
        /\ Complete(SubSeq(toks, 1, m))
        /\ \A n \in (m + 1)..(i - 1) : ~Complete(SubSeq(toks, 1, n))
\* a node of the store, an entry of the interning table, an expression yielded
\* is never changed or dropped while the session lasts
NothingChanged ==
    /\ Len(rc') >= Len(rc)
    /\ \A a \in 1..Len(rc) : rc'[a] = rc[a]
    /\ \A n \in DOMAIN intern : n \in DOMAIN intern' /\ intern'[n] = intern[n]
    /\ status' = "parsing" /\ status = "parsing" =>
            /\ Len(collected') >= Len(collected)
            /\ \A j \in 1..Len(collected) : collected'[j] = collected[j]

\* C18: when the first close-paren that comes with no list open (at top level,
\* or right after a quote marker, inside a list or not) is reached, the parse
\* fails with Unexpected(CloseParen); the expressions yielded before it are the
\* complete expressions of the tokens before it, and no step of the parser
\* changes an expression it has built.
C18_StrayCloseParen ==
    /\ [][NothingChanged]_vars
    /\ [](\A c \in Parsed :
            LET toks == scenario.calls[c]
                i == FirstStray(toks)
            IN  (i > 0 /\ Lexed(SubSeq(toks, 1, i))) =>
                    outcomes[c] = Err(Unexpected(CloseParen)))
    /\ [](Yielded(Unexpected(CloseParen)) =>
            LET i == FirstStray(Input)
                m == LastComplete(Input, i)
            IN  /\ i > 0
                /\ Len(tokenizer) = Len(Input) - i
                /\ Trees(rc, collected) = ReadExprs(SubSeq(Input, 1, m), 1, m))

\* a (a) (a ' ) ): the close-paren after the quote marker in the open list
\* failed the parse; a and (a) had been yielded
C18_Witness ==
    /\ Yielded(Unexpected(CloseParen))
    /\ Input = <<A, OpenParen, A, CloseParen, OpenParen, A, QuoteTick, CloseParen, CloseParen>>
    /\ Trees(rc, collected) = <<Id("a"), ListVal(<<Id("a")>>)>>
    /\ tokenizer = <<CloseParen>>

\* C19: when the tokens end with a list open, at any depth, or right after a
\* quote marker, the parse fails with UnexpectedEOF, however many complete
\* expressions come before; these have been yielded when it fails.
C19_UnexpectedEOF ==
    /\ \A c \in Parsed :
            LET toks == scenario.calls[c]
            IN  (Lexed(toks) /\ Unfinished(toks)) => outcomes[c] = Err(UnexpectedEOF)
    /\ Yielded(UnexpectedEOF) =>
            LET m == LastComplete(Input, Len(Input) + 1)
            IN  /\ Unfinished(Input)
                /\ tokenizer = <<>>
                /\ Trees(rc, collected) = ReadExprs(SubSeq(Input, 1, m), 1, m)

\* a (a) ((((a: the tokens ended with four lists open, after two complete
\* expressions
C19_Witness ==
    /\ status = "idle" /\ outcomes = <<Err(UnexpectedEOF)>>
    /\ scenario.calls[1] =
            <<A, OpenParen, A, CloseParen, OpenParen, OpenParen, OpenParen, OpenParen, A>>
    /\ Depth(scenario.calls[1], 9) = 4
    /\ Trees(rc, collected) = <<Id("a"), ListVal(<<Id("a")>>)>>

\* the expressions the parser has built: the nodes of the store, the
\* expressions yielded and the one being returned
Built ==
    {rc[a] : a \in 1..Len(rc)} \cup {collected[j] : j \in 1..Len(collected)}
    \cup (IF pret # None /\ pret # End /\ IsOk(pret) THEN {pret.v} ELSE {})
\* those that are a list starting with the symbol quote
QuoteForms == {x \in Built : IsList(x) /\ x.l # <<>> /\ rc[x.l[1]] = Id("quote")}

\* C20: in a sequence of complete expressions a quote marker takes the one
\* expression that follows it and stands for the list of the symbol quote and
\* that expression, the tokens after it being read as its siblings, at top
\* level as inside a list.  The first element of every such list is the
\* address the interning table holds for quote, which never changes during
\* the session: all the quote forms of a session share one quote symbol.
C20_QuoteMarker ==
    /\ [][("quote" \in DOMAIN intern) =>
            ("quote" \in DOMAIN intern' /\ intern'["quote"] = intern["quote"])]_vars
    /\ [](\A x \in QuoteForms : "quote" \in DOMAIN intern /\ x.l[1] = intern["quote"])
    /\ [](\A x, y \in QuoteForms : x.l[1] = y.l[1])
    /\ [](status = "idle" =>
            \A c \in Parsed :
                LET toks == scenario.calls[c] IN
                (Complete(toks) /\ ~QuoteFree(toks)) =>
                    /\ IsOk(outcomes[c])
                    /\ Trees(rc, outcomes[c].v) = ReadExprs(toks, 1, Len(toks)))

\* (' 1 ' a) and then ' a in one session: three quote forms, one quote symbol;
\* in the list, 1 and a are the operands and the two forms are siblings
C20_Witness ==
    /\ status = "idle" /\ Len(outcomes) = 2
    /\ scenario.calls = <<<<OpenParen, QuoteTick, One, QuoteTick, A, CloseParen>>,
                          <<QuoteTick, A>>>>
    /\ Trees(rc, outcomes[1].v) = <<ListVal(<<Quote(Num(1)), Quote(Id("a"))>>)>>
    /\ Trees(rc, outcomes[2].v) = <<Quote(Id("a"))>>
    /\ outcomes[2].v[1].l[1] = intern["quote"]
    /\ rc[outcomes[1].v[1].l[1]].l[1] = intern["quote"]
    /\ rc[outcomes[1].v[1].l[2]].l[1] = intern["quote"]

-----------------------------------------------------------------------------
(* C21: interning *)

\* the atoms the parser has produced for the identifier text s: the nodes of
\* the store (behind an Rc) and the atoms yielded by value at top level
AtomsOf(s) ==
    {<<"rc", a>> : a \in {a \in 1..Len(rc) : rc[a] = Id(s)}}
    \cup {<<"collected", j>> : j \in {j \in 1..Len(collected) : collected[j] = Id(s)}}
IdentifierTexts == {"a", "quote"}

\* C21: any two atoms produced for an identifier text within one session are
\* the same shared node, wherever the two occurrences stand.
C21_Interning ==
    \A s \in IdentifierTexts : Cardinality(AtomsOf(s)) <= 1

-----------------------------------------------------------------------------
(* C22: the top-level driver *)

\* the value of the global = after the first n forms of the kinds ks
EqAfter(ks, n) ==
    IF LastOf(ks, "set", n) = 0 THEN FuncV("=") ELSE NumV(LastOf(ks, "set", n))
\* the value of top-level form j of the kinds ks
BatchValue(ks, j) ==
    CASE ks[j] = "def" -> Void
      [] ks[j] = "num" -> NumV(j)
      [] ks[j] = "set" -> (CASE setReturns = "old" -> EqAfter(ks, j - 1)
                             [] setReturns = "new" -> NumV(j)
                             [] OTHER -> Void)

\* C22: parse_and_eval evaluates the top-level forms of its input in order,
\* each against the global environment, and returns the list of their values
\* in the same order, or the first failure; after a failing form no later form
\* is evaluated, and what the forms before it bound and assigned is there in
\* the later calls.
C22_DriverInOrder ==
    /\ [][(stack = <<>> /\ stack' # <<>>) =>
            /\ stack' = <<Frame(parsed[k], GlobalEnv)>>
            /\ Len(results) = k - 1
            /\ UNCHANGED <<heap, outcomes, results, k>>]_vars
    /\ [][(stack = <<>> /\ stack' = <<>>) => heap' = heap]_vars
    /\ [](scenario.id = "batch" /\ Finished =>
            LET ks == scenario.p.ks
                n == Len(ks)
                last == StopAt(ks, "fail")
                done == IF ks[last] = "fail" THEN last - 1 ELSE n
                bound == LastOf(ks, "def", done)
                E(j) == BatchForm(j, ks[j])
            IN  /\ outcomes[1] = IF ks[last] = "fail" THEN Err("FreeIdentifier")
                                 ELSE Ok([j \in 1..n |-> BatchValue(ks, j)])
                /\ \A j \in 1..n : Count(E(j)) = (IF j <= last THEN 1 ELSE 0)
                /\ \A i, j \in 1..last : i < j => Pos(E(i)) < Pos(E(j))
                /\ \A j \in 1..last : log[Pos(E(j))].env = GlobalEnv
                /\ outcomes[2] = IF bound = 0 THEN Err("FreeIdentifier")
                                 ELSE Ok(<<NumV(bound)>>)
                /\ outcomes[3] = Ok(<<EqAfter(ks, done)>>))

\* (set! = 1) (u 2) (define c 3): the second form failed, the third was never
\* evaluated and c is unbound in the next call, = is 1 in the call after
C22_Witness ==
    /\ scenario.id = "batch" /\ Finished
    /\ scenario.p.ks = <<"set", "fail", "def">>
    /\ outcomes = <<Err("FreeIdentifier"), Err("FreeIdentifier"), Ok(<<NumV(1)>>)>>
    /\ Count(Def("c", Num(3))) = 0 /\ Count(SetB("=", Num(1))) = 1
    /\ ~Binds(heap, GlobalEnv, "c")

-----------------------------------------------------------------------------
(* C23: failures are not recovered *)

\* an activation of evaluate has returned a failure to its caller
FailureReturned == ret # None /\ IsErr(ret)

\* C23: a failure returned by a nested evaluation is returned unchanged by the
\* caller, which evaluates nothing more and changes no environment, up to the
\* top-level evaluation, whose outcome it becomes.  An expression failing in
\* the operator, an argument, the test of if, the operand of define, set!,
\* eval, and, or, begin or a binding of let fails the input with its own error
\* kind, and nothing that comes later in evaluation order is evaluated: after
\* the failing expression only its own operand (the + of (eval +)) and the z of
\* the next input are.
C23_FailuresPropagate ==
    /\ [][(FailureReturned /\ stack # <<>>) =>
            /\ ret' = ret
            /\ stack' = SubSeq(stack, 1, Len(stack) - 1)
            /\ UNCHANGED <<heap, log>>]_vars
    /\ [][(FailureReturned /\ stack = <<>>) =>
            /\ outcomes' = Append(outcomes, ret)
            /\ status' = "idle"
            /\ UNCHANGED <<heap, log, stack>>]_vars
    /\ [](scenario.id = "failure" /\ Finished =>
            /\ outcomes = <<Err(scenario.p.kind), Err("FreeIdentifier")>>
            /\ Count(Later) = 0
            /\ Count(scenario.p.fails) = 1
            /\ \A j \in (Pos(scenario.p.fails) + 1)..Len(log) :
                    log[j].expr \in {Id("+"), Id("z")}
            /\ \A j \in Frames(heap) : ~Binds(heap, j, "z") /\ ~Binds(heap, j, "d")
            /\ heap[GlobalEnv] = default_env)

\* (begin ((lambda () (+ 1 (eval +) (define z 1)))) (define z 1)): the second
\* argument of + failed with ContractViolation in a call's frame; neither
\* define of z was evaluated
C23_Witness ==
    /\ scenario.id = "failure" /\ Finished
    /\ scenario.p.pos = "native" /\ scenario.p.outer = "frame"
    /\ scenario.p.kind = "ContractViolation"
    /\ outcomes[1] = Err("ContractViolation")
    /\ Count(Later) = 0 /\ Count(Num(1)) = 1
    /\ Len(heap) = 2

-----------------------------------------------------------------------------
(* C24: applications of what is no function *)

\* the operator of an application has been evaluated to a value that is
\* neither a native function nor a closure
AtNotFunction ==
    In("apply") /\ IsOk(ret) /\ ret.v.t \notin {"FuncV", "LambdaV"}
\* the loop of evaluate is at the empty list
AtEmptyList == In("loop") /\ Top.expr = ListVal(<<>>) /\ Len(log) < MaxSteps

\* C24: when the operator of (op args...) has a value that is neither a native
\* function nor a closure the application fails with TypeMismatch at once: no
\* argument is evaluated and no environment changes; the empty list () fails
\* with TypeMismatch in the same way.
C24_NotAFunction ==
    /\ [][AtNotFunction =>
            /\ ret' = Err("TypeMismatch")
            /\ stack' = SubSeq(stack, 1, Len(stack) - 1)
            /\ UNCHANGED <<heap, log>>]_vars
    /\ [][AtEmptyList =>
            /\ ret' = Err("TypeMismatch")
            /\ stack' = SubSeq(stack, 1, Len(stack) - 1)
            /\ heap' = heap]_vars
    /\ [](scenario.id \in {"notfunction", "emptylist"} /\ Finished =>
            /\ outcomes = <<Err("TypeMismatch"), Ok(<<NumV(1)>>)>>
            /\ \A j \in 1..MaxOperands : Count(ArgAt(j)) = 0
            /\ \A j \in Frames(heap) : ~Binds(heap, j, "c")
            /\ \A j \in Frames(heap) : Binds(heap, j, "w") =>
                    /\ j = PlaceEnv(scenario.p.at)
                    /\ scenario.id = "notfunction"
                    /\ scenario.p.op \in {Def("w", Num(1)), Begin(<<Def("w", Num(1)), Num(2)>>)})

\* (v (define c 1) (define c 2) (define c 3)) in a call's frame where v is 2:
\* TypeMismatch, and c is bound nowhere
C24_Witness ==
    /\ scenario.id = "notfunction" /\ Finished
    /\ scenario.p.op = Id("v") /\ scenario.p.m = 3 /\ scenario.p.at = "frame"
    /\ outcomes[1] = Err("TypeMismatch")
    /\ Count(Id("v")) = 2
    /\ heap[2].bindings = [n \in {"v"} |-> NumV(2)]

\* () in a call's frame: TypeMismatch
C24_WitnessEmpty ==
    /\ scenario.id = "emptylist" /\ Finished /\ scenario.p.at = "frame"
    /\ outcomes[1] = Err("TypeMismatch")

-----------------------------------------------------------------------------
(* C25: eval *)

\* eval_eval_expr has the value of its operand
AtEval == In("eval_eval_expr") /\ Top.i = 1 /\ ret # None /\ IsOk(ret)
\* how often the loop of evaluate dispatched on x in the environment env
CountIn(x, env) == Cardinality({j \in 1..Len(log) : log[j] = [expr |-> x, env |-> env]})

\* C25: (eval e) evaluates e and then, by a call, the expression its value
\* stands for in the environment the eval form is evaluated in: in the frame
\* of a call it reads, assigns and binds the names of that frame and leaves
\* the global frame alone.  When the value stands for no expression the form
\* fails with ContractViolation and evaluates nothing more.
C25_EvalInCurrentEnv ==
    /\ [][(AtEval /\ IsOk(ExprFromVal(ret.v))) =>
            /\ Len(stack') = Len(stack) + 1
            /\ Last(stack').expr = ExprFromVal(ret.v).v
            /\ Last(stack').env = Top.env
            /\ UNCHANGED <<heap, log>>]_vars
    /\ [][(AtEval /\ IsErr(ExprFromVal(ret.v))) =>
            /\ ret' = Err("ContractViolation")
            /\ stack' = SubSeq(stack, 1, Len(stack) - 1)
            /\ UNCHANGED <<heap, log>>]_vars
    /\ [](scenario.id = "eval" /\ Finished =>
            LET c == scenario.p.c IN
            /\ outcomes[2] = Ok(<<NumV(1)>>)
            /\ heap[GlobalEnv].bindings =
                    [n \in Natives \cup {"y"} |-> IF n = "y" THEN NumV(1) ELSE FuncV(n)]
            /\ Len(heap) = 2
            /\ IF c.local = None
               THEN /\ outcomes[1] = Err("ContractViolation")
                    /\ CountIn(Id("y"), 2) = 0
                    /\ heap[2].bindings["y"] = NumV(5)
               ELSE /\ outcomes[1] = Ok(<<Void, c.local>>)
                    /\ heap[2].bindings["y"] = c.local
                    /\ CountIn(Id("y"), 2) >= 1 /\ CountIn(Id("y"), GlobalEnv) = 1
                    /\ c.e = Quote(Def("w", Id("y"))) => heap[2].bindings["w"] = NumV(5))

\* (eval q) in the frame where q is the datum (set! y 8) and y is 5: y is 8 in
\* the frame and still 1 in the global frame
C25_Witness ==
    /\ scenario.id = "eval" /\ Finished
    /\ scenario.p.c.e = Id("q")
    /\ heap[2].bindings["y"] = NumV(8) /\ heap[GlobalEnv].bindings["y"] = NumV(1)
    /\ outcomes = <<Ok(<<Void, NumV(8)>>), Ok(<<NumV(1)>>)>>
    /\ CountIn(SetB("y", Num(8)), 2) = 1

\* (eval +), (eval (lambda ..)), (eval (define c 1)): ContractViolation
C25_WitnessNoExpression ==
    /\ scenario.id = "eval" /\ Finished
    /\ scenario.p.c.e = Def("c", Num(1))
    /\ outcomes[1] = Err("ContractViolation")
    /\ heap[2].bindings["c"] = NumV(1)

-----------------------------------------------------------------------------
(* C26: the depth of the parser's own calls *)

\* C26: lists are built on the explicit stack of read_from_tokens, so the
\* nested activations of the parser's functions are never more than one of
\* next and one of read_from_tokens, however deep the parsed structure is.
C26_ActivationsBounded ==
    Len(pstack) <= 2

-----------------------------------------------------------------------------
(* C27: LazyStreamIter::next *)

\* a call of next has returned
Returned == items' # items /\ items'[Len(items')] # Panicked

\* C27: next returns None exactly when the current stream is empty; on a
\* stream that is not empty it returns the first element, and the stream its
\* thunk returns is the current stream afterwards.  So the calls yield the
\* elements of a stream in order, each once, and None from then on: 0, 1, 2,
\* 3, 4 are the first five of (integers 0).
C27_StreamNext ==
    /\ [][Returned =>
            /\ Len(items') = Len(items) + 1
            /\ (items'[Len(items')] = None) <=> stream.empty_stream
            /\ ~stream.empty_stream =>
                    /\ items'[Len(items')] = Ok(stream.stream_first)
                    /\ IsOk(exec_func(stream.stream_thunk)) =>
                            exec_func(stream.stream_thunk) = Ok(StreamV(stream'))]_vars
    /\ [](scenario.id = "stream" /\ scenario.p.end = "empty" =>
            items = [j \in 1..Len(items) |->
                        IF j <= Len(scenario.p.elems) THEN Ok(NumV(scenario.p.elems[j]))
                        ELSE None])
    /\ [](scenario.id = "stream" /\ scenario.p.end = "integers" =>
            items = [j \in 1..Len(items) |-> Ok(NumV(scenario.p.elems[1] + j - 1))])

\* five calls on (integers 0) have returned 0, 1, 2, 3, 4 and the current
\* stream is (integers 5)
C27_Witness ==
    /\ scenario.id = "stream" /\ scenario.p.stream = integers(0)
    /\ items = <<Ok(NumV(0)), Ok(NumV(1)), Ok(NumV(2)), Ok(NumV(3)), Ok(NumV(4))>>
    /\ stream = integers(5)

\* the stream of 1, 2, 1 has been walked to its end
C27_WitnessEnd ==
    /\ scenario.id = "stream" /\ scenario.p.elems = <<1, 2, 1>> /\ scenario.p.end = "empty"
    /\ items = <<Ok(NumV(1)), Ok(NumV(2)), Ok(NumV(1)), None, None>>
    /\ stream = new_empty_stream

-----------------------------------------------------------------------------
(* C28: the order of evaluation of an application *)

\* eval_func has evaluated every argument
AtNativeCall ==
    /\ In("eval_func") /\ (ret = None \/ IsOk(ret))
    /\ Top.i = Len(Top.args)

\* C28: an application evaluates its operator first, then its arguments from
\* the left in the caller's environment, each once, and only then calls the
\* native function, on the values of the arguments in their order and on
\* nothing else, or enters the body of the closure.  When an argument fails
\* the later ones are not evaluated and the function is not called.
C28_ApplicationOrder ==
    /\ [][AtNativeCall =>
            /\ ret' = NativeCall(Top.fv.f,
                        IF ret = None THEN Top.acc ELSE Append(Top.acc, ret.v))
            /\ stack' = SubSeq(stack, 1, Len(stack) - 1)
            /\ UNCHANGED <<heap, log>>]_vars
    /\ [][In("eval_func") => heap' = heap]_vars
    /\ [](scenario.id = "apply" /\ Finished =>
            LET ks == scenario.p.ks
                n == Len(ks)
                e == PlaceEnv(scenario.p.at)
                last == StopAt(ks, "fail")
                failed == n > 0 /\ ks[last] = "fail"
                Arg(j) == Argument(j, ks[j])
                op == Operator(scenario.p.fn, n)
                result == NativeCall("-", [j \in 1..n |-> NumV(ArgValue(j))])
            IN  /\ outcomes = <<IF failed THEN Err("FreeIdentifier")
                                ELSE IF IsOk(result) THEN Ok(<<result.v>>) ELSE result>>
                /\ Count(op) = 1 /\ log[Pos(op)].env = e
                /\ \A j \in 1..n : Count(Arg(j)) = (IF j <= last THEN 1 ELSE 0)
                /\ \A j \in 1..last : Pos(op) < Pos(Arg(j)) /\ log[Pos(Arg(j))].env = e
                /\ \A i, j \in 1..last : i < j => Pos(Arg(i)) < Pos(Arg(j))
                /\ heap[e].bindings["c"] = NumV(IF failed THEN last - 1 ELSE n)
                /\ scenario.p.fn = "closure" =>
                        /\ Count(ClosureBody(n)) = (IF failed THEN 0 ELSE 1)
                        /\ Len(heap) = e + (IF failed THEN 0 ELSE 1)
                        /\ ~failed =>
                                /\ \A j \in 1..n : Pos(Arg(j)) < Pos(ClosureBody(n))
                                /\ heap[e + 1].bindings =
                                        [x \in {Parameter(j) : j \in 1..n} \cup {"b"} |->
                                            IF x = "b" THEN NumV(n)
                                            ELSE NumV(ArgValue(CHOOSE j \in 1..n :
                                                                Parameter(j) = x))])

\* (- 20 2 3) with the operator and the arguments binding c on their way, in a
\* call's frame: 15, and c is 3
C28_Witness ==
    /\ scenario.id = "apply" /\ Finished
    /\ scenario.p.fn = "native" /\ scenario.p.at = "frame"
    /\ scenario.p.ks = <<"value", "value", "value">>
    /\ outcomes = <<Ok(<<NumV(15)>>)>>
    /\ heap[2].bindings["c"] = NumV(3)

\* the second of three arguments of a closure failed: the third and the body
\* were not evaluated, no frame was made
C28_WitnessFailure ==
    /\ scenario.id = "apply" /\ Finished
    /\ scenario.p.fn = "closure" /\ scenario.p.at = "global"
    /\ scenario.p.ks = <<"value", "fail", "value">>
    /\ outcomes = <<Err("FreeIdentifier")>>
    /\ Len(heap) = 1 /\ heap[1].bindings["c"] = NumV(1)

-----------------------------------------------------------------------------
(* C29: the dispatch of special forms *)

\* the loop of evaluate is at a list whose head is the identifier of a special form
AtSpecialForm ==
    /\ In("loop") /\ Len(log) < MaxSteps
    /\ IsList(Top.expr) /\ Top.expr.l # <<>>
    /\ IsIdentifier(Top.expr.l[1]) /\ Top.expr.l[1].t.s \in SpecialForms
\* the helper of evaluate that handles the special form of the name
HelperOf(f) ==
    CASE f = "if" -> "eval_if"
      [] f = "define" -> "eval_define"
      [] f \in {"lambda", "λ"} -> "eval_make_lambda"
      [] f = "eval" -> "eval_eval_expr"
      [] f = "set!" -> "eval_set"
      [] f = "let" -> "eval_let"
      [] f = "begin" -> "eval_begin"
      [] f = "and" -> "eval_and"
      [] f = "or" -> "eval_or"
\* the value of the sample form of the name, evaluated in env
SampleValue(f, env) ==
    CASE f = "quote" -> SymbolV("a")
      [] f \in {"if", "eval", "let", "begin"} -> NumV(1)
      [] f = "define" -> Void
      [] f \in {"lambda", "λ"} -> LambdaV(<<>>, Num(1), env)
      [] f = "set!" -> (CASE setReturns = "old" -> FuncV("-")
                          [] setReturns = "new" -> NumV(1)
                          [] OTHER -> Void)
      [] f = "and" -> BoolV(TRUE)
      [] f = "or" -> BoolV(FALSE)

\* C29: a list whose head is the identifier quote, if, define, lambda, λ,
\* eval, set!, let, begin, and or or is handled as that special form whatever
\* the environment binds the name to: the head is not looked up and the step
\* enters the helper of the form with the operands.  The same identifier as a
\* bare atom is looked up: it has the value the environment binds it to and
\* fails where it is unbound.
C29_DispatchByName ==
    /\ [][AtSpecialForm =>
            LET f == Top.expr.l[1].t.s IN
            /\ heap' = heap
            /\ log' = Append(log, [expr |-> Top.expr, env |-> Top.env])
            /\ IF f = "quote"
               THEN /\ stack' = SubSeq(stack, 1, Len(stack) - 1)
                    /\ ret' = IF Len(Top.expr.l) = 2 THEN ValFromExpr(Top.expr.l[2])
                              ELSE Err("ArityMismatch")
               ELSE /\ Len(stack') = Len(stack)
                    /\ Last(stack').pc = HelperOf(f)
                    /\ Last(stack').args = Tail(Top.expr.l)
                    /\ Last(stack').env = Top.env]_vars
    /\ [](scenario.id = "dispatch" /\ Finished =>
            LET f == scenario.p.f
                at == scenario.p.at
                v == IF scenario.p.v = Num(9) THEN NumV(9) ELSE FuncV("+")
            IN  /\ outcomes[1] = Ok(CASE at = "unbound" -> <<SampleValue(f, GlobalEnv)>>
                                      [] at = "global" -> <<Void, SampleValue(f, GlobalEnv)>>
                                      [] at = "frame" -> <<NumV(0), SampleValue(f, 2)>>)
                /\ outcomes[2] = IF at \in {"unbound", "frame"} THEN Err("FreeIdentifier")
                                 ELSE Ok(<<v>>)
                /\ Count(Id(f)) = 1
                /\ at = "global" => heap[GlobalEnv].bindings[f] = v
                /\ at = "frame" => heap[2].bindings[f] = v)

\* (define if 9) (if #t 1 2) and then if: the form has the value 1, the atom 9
C29_Witness ==
    /\ scenario.id = "dispatch" /\ Finished
    /\ scenario.p.f = "if" /\ scenario.p.at = "global" /\ scenario.p.v = Num(9)
    /\ outcomes = <<Ok(<<Void, NumV(1)>>), Ok(<<NumV(9)>>)>>

\* (begin 1) where nothing binds begin, and then begin: 1 and FreeIdentifier
C29_WitnessUnbound ==
    /\ scenario.id = "dispatch" /\ Finished
    /\ scenario.p.f = "begin" /\ scenario.p.at = "unbound"
    /\ outcomes = <<Ok(<<NumV(1)>>), Err("FreeIdentifier")>>

-----------------------------------------------------------------------------
(* C30: set! with a target that is not an identifier *)

\* eval_set is entered with two operands
AtSetEntry == In("eval_set") /\ ret = None /\ Len(Top.args) = 2
\* the operand of eval_set has returned a value and the target is not an identifier
AtSetTarget == In("eval_set") /\ ret # None /\ IsOk(ret) /\ ~IsIdentifier(Top.args[1])

\* C30: (set! target e) evaluates e before it looks at target: the first step
\* of eval_set with two operands calls evaluate on e in the current environment
\* whatever target is, and TypeMismatch is returned for a target that is not
\* an identifier only once e has returned a value, the store being left as e
\* left it.  So e is evaluated once, an error of e is the error of the form,
\* and what e defined or assigned stays.
C30_SetEvaluatesFirst ==
    /\ [][AtSetEntry =>
            /\ Len(stack') = Len(stack) + 1
            /\ Last(stack').expr = Top.args[2] /\ Last(stack').env = Top.env
            /\ Last(stack').pc = "loop"
            /\ heap' = heap /\ ret' = None]_vars
    /\ [][AtSetTarget =>
            /\ ret' = Err("TypeMismatch") /\ heap' = heap
            /\ stack' = SubSeq(stack, 1, Len(stack) - 1)]_vars
    /\ [](scenario.id = "settarget" /\ Finished =>
            LET o == scenario.p.operand
                env == IF scenario.p.where = "global" THEN GlobalEnv ELSE 2
            IN  /\ outcomes[1] = IF o = Id("zz") THEN Err("FreeIdentifier")
                                 ELSE Err("TypeMismatch")
                /\ CountIn(o, env) = 1
                /\ o = Def("c", Num(3)) => heap[env].bindings["c"] = NumV(3)
                /\ outcomes[2] = IF o = Def("c", Num(3)) /\ env = GlobalEnv
                                 THEN Ok(<<NumV(3)>>) ELSE Err("FreeIdentifier")
                /\ outcomes[3] = IF o = SetB("+", Num(3)) THEN Ok(<<NumV(3)>>)
                                 ELSE Ok(<<FuncV("+")>>))

\* (set! 1 (define c 3)) at top level: TypeMismatch, and c is 3 afterwards
C30_Witness ==
    /\ scenario.id = "settarget" /\ Finished
    /\ scenario.p.where = "global" /\ scenario.p.target = Num(1)
    /\ scenario.p.operand = Def("c", Num(3))
    /\ outcomes = <<Err("TypeMismatch"), Ok(<<NumV(3)>>), Ok(<<FuncV("+")>>)>>

\* ((lambda () (set! (c) (set! + 3)))): TypeMismatch, and + is 3 afterwards
C30_WitnessAssigned ==
    /\ scenario.id = "settarget" /\ Finished
    /\ scenario.p.where = "frame" /\ scenario.p.target = ListVal(<<Id("c")>>)
    /\ scenario.p.operand = SetB("+", Num(3))
    /\ outcomes[1] = Err("TypeMismatch") /\ outcomes[3] = Ok(<<NumV(3)>>)

-----------------------------------------------------------------------------
(* C31: parse_and_eval parses the whole input first *)

\* the ParseError of an input that ends with the tokens bad
ParseErrorOf(bad) ==
    IF bad \in {<<OpenParen>>, <<OpenParen, B>>, <<QuoteTick>>} THEN UnexpectedEOF
    ELSE IF bad[1] = BadToken \/ bad[Len(bad)] = BadToken THEN TokenError
    ELSE Unexpected(CloseParen)
\* the identifiers of the tokens toks that stand in a list
RECURSIVE InLists(_, _)
InLists(toks, depth) ==
    IF toks = <<>> \/ Head(toks) = BadToken THEN {}
    ELSE IF Head(toks) = OpenParen THEN InLists(Tail(toks), depth + 1)
    ELSE IF Head(toks) = CloseParen
    THEN IF depth = 0 THEN {} ELSE InLists(Tail(toks), depth - 1)
    ELSE (IF depth > 0 /\ Head(toks).k = "Identifier" THEN {Head(toks).s} ELSE {})
         \cup InLists(Tail(toks), depth)
\* the first call of parse_and_eval has returned and the second has not begun
AfterFirst == status = "idle" /\ Len(outcomes) = 1 /\ Len(script) = 1

\* C31: parse_and_eval parses its whole input before it evaluates anything.
\* While it parses, no activation of evaluate exists and the environment and
\* the history of dispatches stay as they are; evaluation begins only when
\* the parser has reported the end of the tokens.  A ParseError of any form,
\* also after well-formed ones, is what the call returns: no form of the
\* input is evaluated, the global environment is as before (a later lookup of
\* a name the input would have defined fails), and the identifiers read in
\* lists before the failure are in the interning table.
C31_ParsedBeforeEvaluated ==
    /\ [][status = "parsing" =>
            /\ stack' = stack /\ heap' = heap /\ log' = log /\ ret' = ret
            /\ \A s \in DOMAIN intern : s \in DOMAIN intern' /\ intern'[s] = intern[s]
            /\ status' = "running" => pret = End /\ tokenizer = <<>>
                                      /\ parsed' = Trees(rc, collected)
            /\ status' = "idle" => IsErr(pret) /\ outcomes' = Append(outcomes, pret)]_vars
    /\ [][stack' # stack \/ heap' # heap \/ log' # log => status = "running"]_vars
    /\ [](scenario.id = "text" /\ scenario.p.bad # <<>> =>
            /\ AfterFirst =>
                    /\ outcomes[1] = Err(ParseErrorOf(scenario.p.bad))
                    /\ log = <<>> /\ heap = <<default_env>> /\ parsed = <<>>
                    /\ DOMAIN intern = InLists(scenario.calls[1], 0)
            /\ Finished =>
                    /\ outcomes[2] = Err("FreeIdentifier")
                    /\ heap = <<default_env>>
                    /\ \A j \in 1..Len(log) :
                            log[j].expr \in {Id("+"), Id("a"),
                                             App(Id("+"), <<Id("a"), Id("b")>>)}
                    /\ InLists(scenario.calls[1], 0) \subseteq DOMAIN intern)
    /\ [](scenario.id = "text" /\ scenario.p.bad = <<>> /\ AfterFirst =>
            /\ IF IsErr(outcomes[1]) THEN outcomes[1] = Err("FreeIdentifier")
               ELSE Len(outcomes[1].v) = Len(scenario.p.good)
            /\ scenario.p.good # <<>> => log # <<>>)

\* (define a 1) (b and then (+ a b): UnexpectedEOF, define, a and b interned,
\* and a is unbound afterwards
C31_Witness ==
    /\ scenario.id = "text" /\ Finished
    /\ scenario.p.good = <<<<OpenParen, Identifier("define"), A, One, CloseParen>>>>
    /\ scenario.p.bad = <<OpenParen, B>>
    /\ outcomes = <<Err(UnexpectedEOF), Err("FreeIdentifier")>>
    /\ {"define", "a", "b"} \subseteq DOMAIN intern
    /\ "a" \notin DOMAIN heap[GlobalEnv].bindings

\* (define a 1) (define b 1) and then (+ a b): both forms evaluated, 2
C31_WitnessParsed ==
    /\ scenario.id = "text" /\ Finished /\ scenario.p.bad = <<>>
    /\ outcomes = <<Ok(<<Void, Void>>), Ok(<<NumV(2)>>)>>

-----------------------------------------------------------------------------
(* C32: define with a value expression that fails *)

\* the frame the define of a definefail scenario is evaluated in
DefineEnv == IF scenario.p.where = "global" THEN GlobalEnv ELSE 2
\* the binding of c in that frame
BindingOfC ==
    IF "c" \in DOMAIN heap[DefineEnv].bindings THEN Ok(heap[DefineEnv].bindings["c"])
    ELSE Err("FreeIdentifier")
\* the binding of c before the define
BindingBefore == IF scenario.p.was = "bound" THEN Ok(NumV(1)) ELSE Err("FreeIdentifier")
\* the failure of the value expression
FailureOf(e) ==
    CASE e = App(Num(1), <<>>) -> Err("TypeMismatch")
      [] e = Form("if", <<>>) -> Err("ArityMismatch")
      [] OTHER -> Err("FreeIdentifier")
\* the value expression gives c a value of its own before it fails
Rebinds(e, was) ==
    \/ e = Begin(<<Def("c", Num(2)), Id("zz")>>)
    \/ e = Begin(<<SetB("c", Num(2)), Id("zz")>>) /\ was = "bound"

\* C32 as stated: when the value expression of (define x e) fails, the define
\* fails with that failure and the binding of x in the current frame is what
\* it was before the define: absent, or the old value.
C32_BindingAsBefore ==
    scenario.id = "definefail" /\ Finished =>
        /\ outcomes[1] = FailureOf(scenario.p.failing)
        /\ BindingOfC = BindingBefore

\* C32, amended: when the value expression of (define x e) fails, the define
\* fails with that failure and binds nothing: the step of eval_define that
\* gets the failure returns it and leaves every frame as it is.  The binding
\* of x is then what the evaluation of e left: what it was before the define
\* when e did not define or assign x itself, and the value e gave it otherwise.
C32_DefineBindsNothing ==
    /\ [][In("eval_define") /\ ret # None /\ IsErr(ret) =>
            /\ heap' = heap /\ ret' = ret
            /\ stack' = SubSeq(stack, 1, Len(stack) - 1)]_vars
    /\ [](scenario.id = "definefail" /\ Finished =>
            LET e == scenario.p.failing IN
            /\ outcomes[1] = FailureOf(e)
            /\ CountIn(e, DefineEnv) = 1
            /\ BindingOfC = IF Rebinds(e, scenario.p.was) THEN Ok(NumV(2)) ELSE BindingBefore
            /\ outcomes[2] = IF DefineEnv = GlobalEnv /\ IsOk(BindingOfC)
                             THEN Ok(<<BindingOfC.v>>) ELSE Err("FreeIdentifier"))

\* (define c 1) (define c zz) and then c: FreeIdentifier, and c is still 1
C32_Witness ==
    /\ scenario.id = "definefail" /\ Finished
    /\ scenario.p.where = "global" /\ scenario.p.was = "bound"
    /\ scenario.p.failing = Id("zz")
    /\ outcomes = <<Err("FreeIdentifier"), Ok(<<NumV(1)>>)>>

\* in a call, (define c (begin (define c 2) zz)) with c unbound: c is 2
C32_WitnessRebound ==
    /\ scenario.id = "definefail" /\ Finished
    /\ scenario.p.where = "frame" /\ scenario.p.was = "absent"
    /\ scenario.p.failing = Begin(<<Def("c", Num(2)), Id("zz")>>)
    /\ outcomes[1] = Err("FreeIdentifier")
    /\ heap[2].bindings["c"] = NumV(2)

-----------------------------------------------------------------------------
(* C33: the interning table *)

\* the texts of the identifier tokens of the inputs, and quote where an input
\* has a quote marker
TextsOf(calls) ==
    {t.s : t \in UNION {{calls[c][j] : j \in 1..Len(calls[c])} : c \in 1..Len(calls)} \cap
               {Identifier("a"), Identifier("quote")}}
    \cup (IF \E c \in 1..Len(calls) : \E j \in 1..Len(calls[c]) : calls[c][j] = QuoteTick
          THEN {"quote"} ELSE {})

\* C33: in every state reached by parsing a sequence of inputs with one
\* table, every entry of the interning table maps its key s to an atom whose
\* token is Identifier(s); a step of the parser keeps every entry as it is, so
\* the table only grows, and it is emptied when the Evaluator is dropped; the
\* keys are texts of identifier tokens of the inputs (and quote for a quote
\* marker), so a number, a string or a boolean never gets an entry, also a
\* string whose text is the text of an identifier.
C33_InterningTable ==
    /\ [](\A s \in DOMAIN intern : intern[s] \in DOMAIN rc /\ rc[intern[s]] = Id(s))
    /\ [][status' # "dropped" =>
            \A s \in DOMAIN intern : s \in DOMAIN intern' /\ intern'[s] = intern[s]]_vars
    /\ [][status' = "dropped" => intern' = <<>>]_vars
    /\ [][\A a \in DOMAIN rc : a \in DOMAIN rc' /\ rc'[a] = rc[a]]_vars
    /\ [](DOMAIN intern \subseteq TextsOf(scenario.calls))
    /\ [](\A a \in DOMAIN rc :
            IsAtom(rc[a]) /\ ~IsIdentifier(rc[a]) => \A s \in DOMAIN intern : intern[s] # a)

\* ("a" #t 1 '1) "quote" and then (quote a): the table holds quote and a and
\* nothing for the literals
C33_Witness ==
    /\ scenario.id = "parse" /\ Finished /\ Len(outcomes) = 2
    /\ scenario.calls[1][2] = StringLiteral("a")
    /\ scenario.calls[2] = <<OpenParen, Identifier("quote"), A, CloseParen>>
    /\ DOMAIN intern = {"quote", "a"}
    /\ rc[intern["a"]] = Id("a") /\ rc[intern["quote"]] = Id("quote")
    /\ \E a \in DOMAIN rc : rc[a] = Str("a")

\* the Evaluator dropped after inputs that filled the table
C33_WitnessDropped ==
    /\ status = "dropped" /\ intern = <<>>
    /\ \E a, b \in DOMAIN rc : rc[a] = Id("a") /\ rc[b] = Id("quote")

-----------------------------------------------------------------------------
(* C34: LazyStreamIter::next over a thunk that fails *)

\* the current stream is not empty and executing its thunk fails
ThunkFails == ~stream.empty_stream /\ IsErr(exec_func(stream.stream_thunk))
\* element j of a stream whose last thunk fails: the last element from there on
Repeated(elems, j) == Ok(NumV(elems[IF j <= Len(elems) THEN j ELSE Len(elems)]))

\* C34: when executing the thunk of a stream that is not empty fails, next
\* does not report the failure: it returns Ok of the first element and the
\* current stream stays the same, so the thunk fails again on the next call
\* and every later call returns that element once more.  For a stream whose
\* last thunk fails (its closure fails, or it is a number and no function)
\* the calls return the elements and then the last one again and again: no
\* call returns None or an Err, and a further call is always possible.
C34_ThunkFailureHidden ==
    /\ [][ThunkFails /\ items' # items =>
            /\ items' = Append(items, Ok(stream.stream_first))
            /\ stream' = stream]_vars
    /\ [](scenario.id = "stream" /\ scenario.p.end \in {"fails", "number"} =>
            /\ items = [j \in 1..Len(items) |-> Repeated(scenario.p.elems, j)]
            /\ Len(items) >= Len(scenario.p.elems) =>
                    /\ ThunkFails
                    /\ stream.stream_first = NumV(scenario.p.elems[Len(scenario.p.elems)])
            /\ Len(items) < MaxCalls => ENABLED LazyStreamIter_next)

\* the stream of 1, 2 whose next thunk fails: 1, 2, 2, 2, 2, and the current
\* stream is still the one of 2
C34_Witness ==
    /\ scenario.id = "stream" /\ scenario.p.elems = <<1, 2>> /\ scenario.p.end = "fails"
    /\ items = <<Ok(NumV(1)), Ok(NumV(2)), Ok(NumV(2)), Ok(NumV(2)), Ok(NumV(2))>>
    /\ stream = stream_cons(NumV(2), ThunkOf(<<>>, "fails"))

\* a stream whose thunk is a number: exec_func fails with TypeMismatch
C34_WitnessNumber ==
    /\ scenario.id = "stream" /\ scenario.p.elems = <<1>> /\ scenario.p.end = "number"
    /\ exec_func(stream.stream_thunk) = Err("TypeMismatch")
    /\ items = <<Ok(NumV(1)), Ok(NumV(1)), Ok(NumV(1))>>

====
